---- MODULE Spec2Model ----
(***************************************************************************)
(* A model of libwyag.py (faf4r/wyag): the loose-object store, the KVLM    *)
(* and tree codecs, the reference store and the name resolver, the index   *)
(* codec, add, rm and commit, the comparison of status, the ignore rules,  *)
(* the creation of a repository and an object write that is cut short.     *)
(*                                                                         *)
(* Byte strings (Python bytes) and text strings (Python str) are sequences *)
(* of character codes.  Indices in the translated code are 0-based, as in  *)
(* the source; raw[i] of the source is raw[i+1] here.                      *)
(***************************************************************************)
EXTENDS Integers, Sequences, FiniteSets, TLC

VARIABLES
    kv,     \* the KVLM codec at work: [pc, raw, out]
    tr,     \* the tree codec at work: [pc, src, canon, raw, items, out]
    objects,\* the object store: fanout path -> [data, writes]
    refs,   \* the reference store: path under the gitdir -> text
    last,   \* the last operation on the repository, with its outcome
    rr,     \* a ref_resolve in progress: [pc, start, ref, depth, visited, res]
    index,  \* the index file GITDIR/index: absent, or its bytes
    wt,     \* the worktree: file name -> contents
    ic,     \* a pure function at work on one input: [pc, ...]
    cm      \* a staging, commit, status or check-ignore command: [pc, ...]

vars == <<kv, tr, objects, refs, last, rr, index, wt, ic, cm>>

(***************************************************************************)
(* Bounds of the model.                                                    *)
(***************************************************************************)
\* Depth at which the interpreter stops a recursion with RecursionError
\* (sys.getrecursionlimit() is 1000 in CPython; a smaller depth is modelled).
RecursionLimit == 8
\* Largest number of header lines of a generated KVLM input.
MaxHeaders == 3
\* Largest number of leaves of a generated tree.
MaxLeaves == 2
\* Largest number of objects in the store.
MaxObjects == 2
\* Largest number of reference files besides HEAD.
MaxRefs == 1

(***************************************************************************)
(* Character codes.                                                        *)
(***************************************************************************)
SP == 32
LF == 10
NUL == 0

Min(a, b) == IF a < b THEN a ELSE b
Max(a, b) == IF a > b THEN a ELSE b

(***************************************************************************)
(* Python values: None, exceptions.                                        *)
(***************************************************************************)
\* A call that returned v.
Ok(v) == [err |-> "", val |-> v]
\* A call that raised the exception e (or, for e = "Hang", never returned).
Raise(e) == [err |-> e, val |-> <<>>]

(***************************************************************************)
(* Python sequence primitives.                                             *)
(***************************************************************************)
\* The position a slice bound i denotes in s (negative bounds count from
\* the end, all bounds are clipped to 0..len).
Clip(s, i) == IF i < 0 THEN Max(Len(s) + i, 0) ELSE Min(i, Len(s))

\* s[a:b]
Slice(s, a, b) ==
    LET lo == Clip(s, a)
        hi == Clip(s, b)
    IN  IF hi <= lo THEN <<>> ELSE SubSeq(s, lo + 1, hi)

\* s[a:]
SliceFrom(s, a) == Slice(s, a, Len(s))

\* s.find(c, start) for a single character c: the lowest index >= start
\* holding c, or -1.
Find(s, c, start) ==
    LET cand == {i \in Clip(s, start)..(Len(s) - 1) : s[i + 1] = c}
    IN  IF cand = {} THEN -1 ELSE CHOOSE i \in cand : \A j \in cand : i <= j

\* s.startswith(p)
StartsWith(s, p) == Len(s) >= Len(p) /\ SubSeq(s, 1, Len(p)) = p

\* s.replace(old, new), old non-empty: leftmost, non-overlapping.
RECURSIVE Replace(_, _, _)
Replace(s, old, new) ==
    IF Len(s) < Len(old) THEN s
    ELSE IF SubSeq(s, 1, Len(old)) = old
         THEN new \o Replace(SubSeq(s, Len(old) + 1, Len(s)), old, new)
         ELSE <<s[1]>> \o Replace(Tail(s), old, new)

(***************************************************************************)
(* collections.OrderedDict / dict as used for a KVLM: a sequence of        *)
(* entries in insertion order.  The key None (the message slot) is the     *)
(* entry with isnone = TRUE.  A value is one byte string (islist = FALSE,  *)
(* vals of length 1) or a list of byte strings (islist = TRUE).            *)
(***************************************************************************)
PyNone == [isNone |-> TRUE, items |-> <<>>]
OrderedDict == [isNone |-> FALSE, items |-> <<>>]

DictFrom(items) == [isNone |-> FALSE, items |-> items]

\* Position of the entry of key k (or of None when isnone), 0 when absent.
DictPos(d, isnone, k) ==
    LET hit == {i \in 1..Len(d.items) :
                   /\ d.items[i].isnone = isnone
                   /\ (isnone \/ d.items[i].key = k)}
    IN  IF hit = {} THEN 0 ELSE CHOOSE i \in hit : TRUE

\* d[k] = v (a plain assignment: replaces the value, keeps the position).
DictSet(d, isnone, k, v) ==
    LET p == DictPos(d, isnone, k)
        e == [key |-> k, isnone |-> isnone, islist |-> FALSE, vals |-> <<v>>]
    IN  DictFrom(IF p = 0 THEN Append(d.items, e)
                 ELSE [d.items EXCEPT ![p] = e])

(***************************************************************************)
(* kvlm_parse, lines 508-545.                                              *)
(***************************************************************************)
\* The while loop of lines 529-532, entered with the variable end = end0:
\* returns the final value of end, raises IndexError when raw[end + 1] is
\* out of range, and never returns ("Hang") when end takes a value it had
\* before.
RECURSIVE kvlm_value_end(_, _, _)
kvlm_value_end(raw, end0, seen) ==
    LET end == Find(raw, LF, end0 + 1)
    IN  IF end + 1 >= Len(raw) THEN Raise("IndexError")
        ELSE IF raw[end + 2] # SP THEN Ok(end)
        ELSE IF end \in seen THEN Raise("Hang")
        ELSE kvlm_value_end(raw, end, seen \cup {end})

\* Lines 537-543: the update of dct with one more value for key.
kvlm_add(dct, key, value) ==
    LET p == DictPos(dct, FALSE, key)
    IN  IF p = 0 THEN DictSet(dct, FALSE, key, value)
        ELSE DictFrom([dct.items EXCEPT ![p] =
                 [key |-> key, isnone |-> FALSE, islist |-> TRUE,
                  vals |-> Append(dct.items[p].vals, value)]])

\* kvlm_parse(raw, start, dct) at recursion depth `depth`.
RECURSIVE kvlm_parse(_, _, _, _)
kvlm_parse(raw, start, dct, depth) ==
    LET \* lines 509-510: a fresh dict replaces a dct that was passed in
        d0 == IF ~dct.isNone THEN OrderedDict ELSE dct
        spc == Find(raw, SP, start)
        nl == Find(raw, LF, start)
    IN  IF depth > RecursionLimit THEN Raise("RecursionError")
        ELSE IF (spc < 0) \/ (nl < spc)
        THEN IF nl # start THEN Raise("AssertionError")
             \* dct[None] = ... on None
             ELSE IF d0.isNone THEN Raise("TypeError")
             ELSE Ok(DictSet(d0, TRUE, <<>>, SliceFrom(raw, start + 1)))
        ELSE LET key == Slice(raw, start, spc)
                 e == kvlm_value_end(raw, start, {})
             IN  IF e.err # "" THEN e
                 \* key in dct on None
                 ELSE IF d0.isNone THEN Raise("TypeError")
                 ELSE LET value == Replace(Slice(raw, spc + 1, e.val),
                                           <<LF, SP>>, <<LF>>)
                      IN  kvlm_parse(raw, e.val + 1, kvlm_add(d0, key, value),
                                     depth + 1)

(***************************************************************************)
(* kvlm_serialize, lines 548-567.                                          *)
(***************************************************************************)
\* Lines 561-562: the lines of one key.
RECURSIVE kvlm_lines(_, _)
kvlm_lines(k, vals) ==
    IF vals = <<>> THEN <<>>
    ELSE k \o <<SP>> \o Replace(Head(vals), <<LF>>, <<LF, SP>>) \o <<LF>>
         \o kvlm_lines(k, Tail(vals))

\* Lines 552-562: the header lines of the entries, the message skipped.
RECURSIVE kvlm_fields(_)
kvlm_fields(items) ==
    IF items = <<>> THEN <<>>
    ELSE (IF Head(items).isnone THEN <<>>
          ELSE kvlm_lines(Head(items).key, Head(items).vals))
         \o kvlm_fields(Tail(items))

kvlm_serialize(kvlm) ==
    LET p == DictPos(kvlm, TRUE, <<>>)
    IN  IF p = 0 THEN Raise("KeyError")
        ELSE Ok(kvlm_fields(kvlm.items) \o <<LF>> \o kvlm.items[p].vals[1]
                \o <<LF>>)

\* GitCommit.deserialize followed by GitCommit.serialize (lines 573-577).
commit_roundtrip(raw) ==
    LET p == kvlm_parse(raw, 0, PyNone, 0)
    IN  IF p.err # "" THEN p ELSE kvlm_serialize(p.val)

(***************************************************************************)
(* Well-formed KVLM inputs: header lines `key SP value LF`, the LFs of a   *)
(* value followed by SP (continuation lines), a blank line, a message.     *)
(***************************************************************************)
KvKeys == {<<116>>, <<112>>}                  \* "t", "p"
KvValues == {<<49>>, <<49, LF, 50>>}          \* "1", "1\n2"
KvMessages == {<<>>, <<109>>, <<109, LF>>}    \* "", "m", "m\n"

KvHeaderLists ==
    UNION {[1..n -> KvKeys \X KvValues] : n \in 0..MaxHeaders}

RECURSIVE KvWireHeaders(_)
KvWireHeaders(hs) ==
    IF hs = <<>> THEN <<>>
    ELSE Head(hs)[1] \o <<SP>> \o Replace(Head(hs)[2], <<LF>>, <<LF, SP>>)
         \o <<LF>> \o KvWireHeaders(Tail(hs))

KvWire(hs, msg) == KvWireHeaders(hs) \o <<LF>> \o msg

KvInputs == {KvWire(hs, m) : hs \in KvHeaderLists, m \in KvMessages}

(***************************************************************************)
(* Hexadecimal text and binary SHAs.                                       *)
(***************************************************************************)
\* Bytes of a binary SHA-1, characters of its hexadecimal form.
ShaBytes == 20
ShaHex == 40

HexDigits == (48..57) \cup (97..102) \cup (65..70)

\* The value of the hexadecimal digit of code c.
HexVal(c) == IF c \in 48..57 THEN c - 48
             ELSE IF c \in 97..102 THEN c - 87 ELSE c - 55

\* The lowercase hexadecimal digit of value n.
HexChar(n) == IF n < 10 THEN 48 + n ELSE 87 + n

RECURSIVE HexOfBytes(_)
HexOfBytes(bs) ==
    IF bs = <<>> THEN <<>>
    ELSE <<HexChar(Head(bs) \div 16), HexChar(Head(bs) % 16)>>
         \o HexOfBytes(Tail(bs))

Zeros(n, z) == [i \in 1..n |-> z]

\* format(int.from_bytes(bs, "big"), "040x") for at most 20 bytes (line 661).
sha_format(bs) ==
    LET h == HexOfBytes(bs) IN Zeros(ShaHex - Len(h), 48) \o h

RECURSIVE BytesOfHex(_)
BytesOfHex(h) ==
    IF h = <<>> THEN <<>>
    ELSE <<HexVal(h[1]) * 16 + HexVal(h[2])>> \o BytesOfHex(Tail(Tail(h)))

RECURSIVE StripZeros(_)
StripZeros(h) == IF h # <<>> /\ Head(h) = 48 THEN StripZeros(Tail(h)) ELSE h

\* int(sha, 16).to_bytes(20, byteorder="big") (lines 689-690).
sha_to_bytes(sha) ==
    IF sha = <<>> \/ \E i \in 1..Len(sha) : sha[i] \notin HexDigits
    THEN Raise("ValueError")
    ELSE LET h == StripZeros(sha)
         IN  IF Len(h) > ShaHex THEN Raise("OverflowError")
             ELSE Ok(BytesOfHex(Zeros(ShaHex - Len(h), 48) \o h))

\* bytes.decode("utf-8") and str.encode("utf-8") on ASCII text; a byte
\* outside ASCII is reported as undecodable (multi-byte text is not modelled).
utf8_decode(bs) ==
    IF \E i \in 1..Len(bs) : bs[i] > 127 THEN Raise("UnicodeDecodeError")
    ELSE Ok(bs)

utf8_encode(text) == text

(***************************************************************************)
(* Tree leaves and the tree codec, lines 638-691.                          *)
(***************************************************************************)
GitTreeLeaf(mode, path, sha) == [mode |-> mode, path |-> path, sha |-> sha]

\* tree_parse_one(raw, start): Ok(<<next position, leaf>>) or an exception.
tree_parse_one(raw, start) ==
    LET x == Find(raw, SP, start)
    IN  IF ~(x - start = 5 \/ x - start = 6) THEN Raise("AssertionError")
        ELSE LET m == Slice(raw, start, x)
                 mode == IF Len(m) = 5 THEN <<SP>> \o m ELSE m
                 y == Find(raw, NUL, x)
                 path == utf8_decode(Slice(raw, x + 1, y))
                 sha == sha_format(Slice(raw, y + 1, y + 21))
             IN  IF path.err # "" THEN path
                 ELSE Ok(<<y + 21, GitTreeLeaf(mode, path.val, sha)>>)

\* The loop of tree_parse (lines 669-671) from position pos with the leaves
\* ret read so far; "Hang" when pos takes a value it had before.
RECURSIVE tree_parse_from(_, _, _, _)
tree_parse_from(raw, pos, ret, seen) ==
    IF ~(pos < Len(raw)) THEN Ok(ret)
    ELSE IF pos \in seen THEN Raise("Hang")
    ELSE LET one == tree_parse_one(raw, pos)
         IN  IF one.err # "" THEN one
             ELSE tree_parse_from(raw, one.val[1], Append(ret, one.val[2]),
                                  seen \cup {pos})

tree_parse(raw) == tree_parse_from(raw, 0, <<>>, {})

\* tree_leaf_sort_key, lines 675-679.
tree_leaf_sort_key(leaf) ==
    IF StartsWith(leaf.mode, <<49, 48>>) THEN leaf.path
    ELSE leaf.path \o <<47>>

\* a <= b for Python strings (lexicographic by character code).
RECURSIVE StrLE(_, _)
StrLE(a, b) ==
    IF a = <<>> THEN TRUE
    ELSE IF b = <<>> THEN FALSE
    ELSE IF Head(a) # Head(b) THEN Head(a) < Head(b)
    ELSE StrLE(Tail(a), Tail(b))

\* list.sort(key=tree_leaf_sort_key): a stable sort.
RECURSIVE tree_sort(_)
tree_sort(items) ==
    IF items = <<>> THEN <<>>
    ELSE LET n == Len(items)
             x == items[n]
             front == tree_sort(SubSeq(items, 1, n - 1))
             k == Cardinality({i \in 1..(n - 1) :
                      StrLE(tree_leaf_sort_key(front[i]), tree_leaf_sort_key(x))})
         IN  SubSeq(front, 1, k) \o <<x>> \o SubSeq(front, k + 1, n - 1)

\* Lines 685-690: the record of one leaf.
tree_record(leaf) ==
    LET sha == sha_to_bytes(leaf.sha)
    IN  IF sha.err # "" THEN sha
        ELSE Ok(leaf.mode \o <<SP>> \o utf8_encode(leaf.path) \o sha.val)

RECURSIVE tree_records(_)
tree_records(items) ==
    IF items = <<>> THEN Ok(<<>>)
    ELSE LET r == tree_record(Head(items))
             rest == tree_records(Tail(items))
         IN  IF r.err # "" THEN r
             ELSE IF rest.err # "" THEN rest
             ELSE Ok(r.val \o rest.val)

\* tree_serialize(obj) for obj.items = items: the bytes returned.  The call
\* also leaves obj.items = tree_sort(items).
tree_serialize(items) == tree_records(tree_sort(items))

(***************************************************************************)
(* The external codecs.  hashlib.sha1 is a stand-in digest of 20 bytes     *)
(* that depends on every byte of its input (distinct modelled contents get *)
(* distinct digests, and contents that agree on their first bytes may      *)
(* share a short prefix of the digest); zlib is a stand-in framing with    *)
(* the two-byte zlib header.                                               *)
(***************************************************************************)
\* Byte k of the digest is folded from the bytes k, k + 20, k + 40, ... of
\* the input; sha1_fold(bs, i, d) folds those from position i on into d.
RECURSIVE sha1_fold(_, _, _)
sha1_fold(bs, i, d) ==
    IF i > Len(bs) THEN d
    ELSE sha1_fold(bs, i + ShaBytes, (d * 31 + bs[i] + 1) % 256)

\* hashlib.sha1(bs).hexdigest()
sha1_hexdigest(bs) == HexOfBytes([k \in 1..ShaBytes |-> sha1_fold(bs, k, 0)])

ZLIB_HEADER == <<120, 156>>

zlib_compress(bs) == ZLIB_HEADER \o bs

zlib_decompress(bs) ==
    IF StartsWith(bs, ZLIB_HEADER) THEN Ok(SliceFrom(bs, 2))
    ELSE Raise("zlib.error")

\* str(n).encode() for n >= 0
RECURSIVE Dec(_)
Dec(n) == IF n < 10 THEN <<48 + n>> ELSE Dec(n \div 10) \o <<48 + (n % 10)>>

RECURSIVE DecValue(_)
DecValue(ds) ==
    IF ds = <<>> THEN 0 ELSE DecValue(SubSeq(ds, 1, Len(ds) - 1)) * 10 + (ds[Len(ds)] - 48)

\* int(bs.decode("ascii")): surrounding blanks are ignored, then decimal
\* digits are required.
py_int(bs) ==
    LET lead == IF bs # <<>> /\ bs[1] = SP THEN Tail(bs) ELSE bs
    IN  IF lead = <<>> \/ \E i \in 1..Len(lead) : lead[i] \notin 48..57
        THEN Raise("ValueError")
        ELSE Ok(DecValue(lead))

(***************************************************************************)
(* The object classes, lines 281-302, 399-406, 570-580, 694-704, 874-875.  *)
(* A Python object is a record of its class attribute fmt and of its       *)
(* instance attributes (the ones its class does not have stay empty).      *)
(***************************************************************************)
B_blob == <<98, 108, 111, 98>>                \* b"blob"
B_tree == <<116, 114, 101, 101>>              \* b"tree"
B_commit == <<99, 111, 109, 109, 105, 116>>   \* b"commit"
B_tag == <<116, 97, 103>>                     \* b"tag"

GitObject(fmt, blobdata, items, kvlm) ==
    [fmt |-> fmt, blobdata |-> blobdata, items |-> items, kvlm |-> kvlm]

GitBlob(data) == GitObject(B_blob, data, <<>>, PyNone)
\* GitTree() followed by items.append
GitTree(items) == GitObject(B_tree, <<>>, items, PyNone)
\* GitCommit() / GitTag() followed by assignments to kvlm
GitCommit(kvlm) == GitObject(B_commit, <<>>, <<>>, kvlm)
GitTag(kvlm) == GitObject(B_tag, <<>>, <<>>, kvlm)

\* GitTree.deserialize / GitCommit.deserialize: the object holding what
\* the parser returned, or the parser's exception.
obj_of_tree(t) == IF t.err # "" THEN t ELSE Ok(GitTree(t.val))
obj_of_kvlm(fmt, k) ==
    IF k.err # "" THEN k ELSE Ok(GitObject(fmt, <<>>, <<>>, k.val))

\* c(data) for the class c of format fmt: __init__ calls deserialize.
obj_deserialize(fmt, data) ==
    IF fmt = B_blob THEN Ok(GitBlob(data))
    ELSE IF fmt = B_tree THEN obj_of_tree(tree_parse(data))
    ELSE obj_of_kvlm(fmt, kvlm_parse(data, 0, PyNone, 0))

\* obj.serialize()
obj_serialize(obj) ==
    IF obj.fmt = B_blob THEN Ok(obj.blobdata)
    ELSE IF obj.fmt = B_tree THEN tree_serialize(obj.items)
    ELSE kvlm_serialize(obj.kvlm)

(***************************************************************************)
(* The object store: the files objects/<xx>/<rest>, as a function from     *)
(* xx \o rest to [data: the bytes of the file, writes: how many times the  *)
(* file was opened for writing].  A fanout directory exists iff it holds   *)
(* a file.                                                                 *)
(***************************************************************************)
FanoutExists(store, dir) ==
    dir = <<>> \/ \E k \in DOMAIN store : Slice(k, 0, 2) = dir

\* Lines 379-382 without the test of line 379: the file is written again.
object_write_file_overwrite(hasRepo, store, result, sha) ==
    [err |-> "", val |-> sha, existed |-> hasRepo /\ sha \in DOMAIN store,
     store |-> IF hasRepo
               THEN [k \in DOMAIN store \cup {sha} |->
                        IF k = sha
                        THEN [data |-> zlib_compress(result),
                              writes |-> IF sha \in DOMAIN store
                                         THEN store[sha].writes + 1
                                         ELSE 1]
                        ELSE store[k]]
               ELSE store]

\* Lines 375-383: result is written to the file of sha unless repo is
\* missing or the file exists; sha is returned.
object_write_file(hasRepo, store, result, sha) ==
    [err |-> "", val |-> sha, existed |-> hasRepo /\ sha \in DOMAIN store,
     store |-> IF hasRepo /\ sha \notin DOMAIN store
               THEN [k \in DOMAIN store \cup {sha} |->
                        IF k = sha
                        THEN [data |-> zlib_compress(result), writes |-> 1]
                        ELSE store[k]]
               ELSE store]

\* Line 373: the hash of header and data.
object_write_result(hasRepo, store, result) ==
    object_write_file(hasRepo, store, result, sha1_hexdigest(result))

\* Lines 371-383, data the outcome of obj.serialize().
object_write_data(fmt, hasRepo, store, data) ==
    IF data.err # ""
    THEN [err |-> data.err, val |-> <<>>, store |-> store, existed |-> FALSE]
    ELSE object_write_result(hasRepo, store,
             fmt \o <<SP>> \o Dec(Len(data.val)) \o <<NUL>> \o data.val)

\* object_write(obj, repo), lines 367-383.  hasRepo: repo is given.
\* Returns [err, val: the sha, store: the store afterwards, existed: the
\* target path existed].
object_write(obj, hasRepo, store) ==
    object_write_data(obj.fmt, hasRepo, store, obj_serialize(obj))

\* object_read(repo, sha), lines 317-357, for a sha that is a string.
\* Ok([none |-> TRUE, ...]) is the return value None.
ObjNone == [none |-> TRUE, obj |-> GitBlob(<<>>)]
ObjSome(o) == [none |-> FALSE, obj |-> o]

\* Line 357: the object constructed, or the constructor's exception.
object_read_made(o) == IF o.err # "" THEN o ELSE Ok(ObjSome(o.val))

\* Lines 338-357.
object_read_sized(raw, fmt, y, size) ==
    IF size.err # "" THEN size
    ELSE IF size.val # Len(raw) - y - 1 THEN Raise("Malformed object")
    ELSE IF fmt \notin {B_commit, B_tree, B_tag, B_blob}
         THEN Raise("Unknown type")
    ELSE object_read_made(obj_deserialize(fmt, SliceFrom(raw, y + 1)))

\* Lines 333 and 337, x and y the positions of the space and the NUL.
object_read_header(raw, x, y) ==
    object_read_sized(raw, Slice(raw, 0, x), y, py_int(Slice(raw, x, y)))

\* Lines 329-336, z the outcome of zlib.decompress.
object_read_raw(z) ==
    IF z.err # "" THEN z
    ELSE object_read_header(z.val, Find(z.val, SP, 0),
                            Find(z.val, NUL, Find(z.val, SP, 0)))

object_read(store, sha) ==
    \* repo_file returns None when the fanout directory is missing, and
    \* os.path.isfile(None) raises
    IF ~FanoutExists(store, Slice(sha, 0, 2)) THEN Raise("TypeError")
    ELSE IF sha \notin DOMAIN store THEN Ok(ObjNone)
    ELSE object_read_raw(zlib_decompress(store[sha].data))

(***************************************************************************)
(* Optional strings (str or None) and the text constants of the source.    *)
(***************************************************************************)
NoneStr == [none |-> TRUE, s |-> <<>>]
Str(s) == [none |-> FALSE, s |-> s]
\* bool(x) for x a str or None
Truthy(x) == ~x.none /\ x.s # <<>>

T_HEAD == <<72, 69, 65, 68>>                          \* "HEAD"
T_ref == <<114, 101, 102, 58, 32>>                    \* "ref: "
T_refs == <<114, 101, 102, 115, 47>>                  \* "refs/"
T_tags == <<116, 97, 103, 115, 47>>                   \* "tags/"
T_heads == <<104, 101, 97, 100, 115, 47>>             \* "heads/"
T_refs_tags == <<114, 101, 102, 115, 47, 116, 97, 103, 115>>  \* "refs/tags"
T_refs_heads == T_refs \o T_heads                     \* "refs/heads/"
T_master == <<109, 97, 115, 116, 101, 114>>           \* "master"
B_object == <<111, 98, 106, 101, 99, 116>>            \* b"object"
B_type == <<116, 121, 112, 101>>                      \* b"type"

(***************************************************************************)
(* The reference store: the files of the gitdir outside objects/, as a     *)
(* function from the path under the gitdir to the text of the file.        *)
(***************************************************************************)
\* ref_resolve's call without the [:-1] of line 812: the LF stays.
ref_resolve_call_keep_lf(rs, ref) ==
    IF ref \notin DOMAIN rs THEN [kind |-> "return", val |-> NoneStr]
    ELSE LET data == rs[ref]
         IN  IF StartsWith(data, T_ref)
             THEN [kind |-> "recurse", val |-> Str(SliceFrom(data, 5))]
             ELSE [kind |-> "return", val |-> Str(data)]

\* One call of ref_resolve (lines 805-817) up to its return or its
\* recursive call: [kind |-> "return", val] or [kind |-> "recurse", val],
\* val the returned value or the argument of the recursive call.
ref_resolve_call(rs, ref) ==
    IF ref \notin DOMAIN rs THEN [kind |-> "return", val |-> NoneStr]
    ELSE LET data == Slice(rs[ref], 0, -1)
         IN  IF StartsWith(data, T_ref)
             THEN [kind |-> "recurse", val |-> Str(SliceFrom(data, 5))]
             ELSE [kind |-> "return", val |-> Str(data)]

\* ref_resolve(repo, ref) at recursion depth `depth`.
RECURSIVE ref_resolve(_, _, _)
ref_resolve(rs, ref, depth) ==
    IF depth > RecursionLimit THEN Raise("RecursionError")
    ELSE LET c == ref_resolve_call(rs, ref)
         IN  IF c.kind = "return" THEN Ok(c.val)
             ELSE ref_resolve(rs, c.val.s, depth + 1)

\* ref_create(repo, ref_name, sha), lines 937-939: [err, refs].  The file is
\* opened (and truncated) before sha + "\n" is evaluated.
ref_create(rs, ref_name, sha) ==
    LET path == T_refs \o ref_name
        file(text) == [k \in DOMAIN rs \cup {path} |->
                          IF k = path THEN text ELSE rs[k]]
    IN  IF sha.none THEN [err |-> "TypeError", refs |-> file(<<>>)]
        ELSE [err |-> "", refs |-> file(sha.s \o <<LF>>)]

(***************************************************************************)
(* The name resolver, lines 960-1038.                                      *)
(***************************************************************************)
\* A result of object_resolve / object_find: the exception raised, if any,
\* the value returned (for object_find) and the candidates (the list
\* object_resolve returned; isnone: it returned None).
FindResult(err, val, isnone, cands) ==
    [err |-> err, val |-> val, isnone |-> isnone, cands |-> cands]

Blank(name) == \A i \in 1..Len(name) : name[i] \in {SP, LF, 9, 13}

\* hashRE, line 976
HashRE(name) ==
    /\ Len(name) \in 4..ShaHex
    /\ \A i \in 1..Len(name) : name[i] \in HexDigits

\* str.lower() on hexadecimal text
Lower(name) == [i \in 1..Len(name) |->
                   IF name[i] \in 65..90 THEN name[i] + 32 ELSE name[i]]

\* Lines 990-992: the candidates among the files ls[from..] of the store
\* (ls: the files in the order os.listdir gives them).
RECURSIVE object_resolve_listing(_, _, _, _)
object_resolve_listing(ls, from, prefix, rem) ==
    IF from > Len(ls) THEN <<>>
    ELSE (IF Slice(ls[from], 0, 2) = prefix /\ StartsWith(SliceFrom(ls[from], 2), rem)
          THEN <<Str(ls[from])>> ELSE <<>>)
         \o object_resolve_listing(ls, from + 1, prefix, rem)

object_resolve(store, rs, name, ls) ==
    IF Blank(name) THEN FindResult("", NoneStr, TRUE, <<>>)
    ELSE IF name = T_HEAD
    THEN LET h == ref_resolve(rs, T_HEAD, 0)
         IN  IF h.err # "" THEN FindResult(h.err, NoneStr, TRUE, <<>>)
             ELSE FindResult("", NoneStr, FALSE, <<h.val>>)
    ELSE LET lname == IF HashRE(name) THEN Lower(name) ELSE name
             c1 == IF HashRE(name) /\ FanoutExists(store, Slice(lname, 0, 2))
                   THEN object_resolve_listing(ls, 1, Slice(lname, 0, 2),
                                               SliceFrom(lname, 2))
                   ELSE <<>>
             as_tag == ref_resolve(rs, T_refs_tags \o lname, 0)
             as_branch == ref_resolve(rs, T_refs_heads \o lname, 0)
         IN  IF as_tag.err # "" THEN FindResult(as_tag.err, NoneStr, TRUE, <<>>)
             ELSE IF as_branch.err # ""
             THEN FindResult(as_branch.err, NoneStr, TRUE, <<>>)
             ELSE FindResult("", NoneStr, FALSE,
                      c1 \o (IF Truthy(as_tag.val) THEN <<as_tag.val>> ELSE <<>>)
                         \o (IF Truthy(as_branch.val) THEN <<as_branch.val>> ELSE <<>>))

\* obj.kvlm[key].decode("ascii"), lines 1034 and 1036.
kvlm_get_decode(kvlm, key) ==
    LET p == DictPos(kvlm, FALSE, key)
    IN  IF p = 0 THEN Raise("KeyError")
        ELSE IF kvlm.items[p].islist THEN Raise("AttributeError")
        ELSE Ok(Str(kvlm.items[p].vals[1]))

\* The loop of lines 1027-1038 entered with sha; "Hang" when sha takes a
\* value it had before.  object_find_step: the body of the loop after obj
\* was read (r); object_find_next: the next turn, n the outcome of the
\* header lookup.
RECURSIVE object_find_loop(_, _, _, _, _)
RECURSIVE object_find_step(_, _, _, _, _, _)
RECURSIVE object_find_next(_, _, _, _, _)
object_find_next(store, fmt, follow, seen, n) ==
    IF n.err # "" THEN n ELSE object_find_loop(store, n.val, fmt, follow, seen)

object_find_step(store, sha, fmt, follow, seen, r) ==
    IF r.err # "" THEN Raise(r.err)
    ELSE IF r.val.none THEN Raise("AttributeError")   \* None.fmt
    ELSE IF r.val.obj.fmt = fmt THEN Ok(sha)
    ELSE IF ~follow THEN Ok(NoneStr)
    ELSE IF r.val.obj.fmt = B_tag
    THEN object_find_next(store, fmt, follow, seen \cup {sha.s},
                          kvlm_get_decode(r.val.obj.kvlm, B_object))
    ELSE IF r.val.obj.fmt = B_commit /\ fmt = B_tree
    THEN object_find_next(store, fmt, follow, seen \cup {sha.s},
                          kvlm_get_decode(r.val.obj.kvlm, B_tree))
    ELSE Ok(NoneStr)

object_find_loop(store, sha, fmt, follow, seen) ==
    IF sha.none THEN Raise("TypeError")          \* None[0:2]
    ELSE IF sha.s \in seen THEN Raise("Hang")
    ELSE object_find_step(store, sha, fmt, follow, seen,
                          object_read(store, sha.s))

\* Lines 1027-1038 as object_find's result.
object_find_followed(cands, r) ==
    IF r.err # "" THEN FindResult(r.err, NoneStr, FALSE, cands)
    ELSE FindResult("", r.val, FALSE, cands)

\* Lines 1014-1038 without the test of line 1018: the first of several
\* candidates is taken.
object_find_first(store, fmt, follow, sha) ==
    IF sha.err # "" THEN sha
    ELSE IF sha.isnone \/ sha.cands = <<>>
    THEN FindResult("No such reference", NoneStr, sha.isnone, sha.cands)
    ELSE IF fmt = <<>> THEN FindResult("", sha.cands[1], FALSE, sha.cands)
    ELSE object_find_followed(sha.cands,
             object_find_loop(store, sha.cands[1], fmt, follow, {}))

\* Lines 1014-1038, sha the outcome of object_resolve.
object_find_candidates(store, fmt, follow, sha) ==
    IF sha.err # "" THEN sha
    ELSE IF sha.isnone \/ sha.cands = <<>>
    THEN FindResult("No such reference", NoneStr, sha.isnone, sha.cands)
    ELSE IF Len(sha.cands) > 1
    THEN FindResult("Ambiguous reference", NoneStr, FALSE, sha.cands)
    ELSE IF fmt = <<>> THEN FindResult("", sha.cands[1], FALSE, sha.cands)
    ELSE object_find_followed(sha.cands,
             object_find_loop(store, sha.cands[1], fmt, follow, {}))

\* object_find(repo, name, fmt, follow), lines 1004-1038; fmt = <<>> stands
\* for fmt=None.
object_find(store, rs, name, fmt, follow, ls) ==
    object_find_candidates(store, fmt, follow,
                           object_resolve(store, rs, name, ls))

\* Lines 481-489, obj the outcome of the constructor.
object_hash_obj(hasRepo, store, obj) ==
    IF obj.err # ""
    THEN [err |-> obj.err, val |-> <<>>, store |-> store, existed |-> FALSE]
    ELSE object_write(obj.val, hasRepo, store)

\* object_hash(fd, fmt, repo), lines 473-489, on a file of content data.
object_hash(data, fmt, hasRepo, store) ==
    object_hash_obj(hasRepo, store, obj_deserialize(fmt, data))

\* Lines 917-934, sha the outcome of object_find.  GitTag(repo) hands the
\* repository to kvlm_parse as raw, whose raw.find raises.
tag_create_at(rs, name, create_tag_object, sha) ==
    IF sha.err # "" THEN [err |-> sha.err, refs |-> rs]
    ELSE IF create_tag_object THEN [err |-> "AttributeError", refs |-> rs]
    ELSE ref_create(rs, T_tags \o name, sha.val)

\* tag_create(repo, name, ref, create_tag_object), lines 913-934:
\* [err, refs].
tag_create(store, rs, name, ref, create_tag_object, ls) ==
    tag_create_at(rs, name, create_tag_object,
                  object_find(store, rs, ref, <<>>, TRUE, ls))

(***************************************************************************)
(* Well-formed trees: lists of leaves with distinct names, given on the    *)
(* wire (5-digit directory mode, binary SHA) or in memory (6-digit modes,  *)
(* hexadecimal SHA).                                                       *)
(***************************************************************************)
MODE_FILE == <<49, 48, 48, 54, 52, 52>>       \* "100644"
MODE_LINK == <<49, 50, 48, 48, 48, 48>>       \* "120000"
MODE_GITLINK == <<49, 54, 48, 48, 48, 48>>    \* "160000"
MODE_DIR == <<48, 52, 48, 48, 48, 48>>        \* "040000"
MODE_DIR_WIRE == <<52, 48, 48, 48, 48>>       \* "40000"

TreeModes == {MODE_FILE, MODE_LINK, MODE_GITLINK, MODE_DIR}
TreeNames == {<<97>>, <<97, 46, 98>>, <<98>>}  \* "a", "a.b", "b"
TreeShas == {[i \in 1..ShaBytes |-> 16 + i], [i \in 1..ShaBytes |-> 171]}

TreeLeafLists ==
    {ls \in UNION {[1..n -> TreeModes \X TreeNames \X TreeShas]
                      : n \in 0..MaxLeaves} :
        \A i, j \in 1..Len(ls) : i # j => ls[i][2] # ls[j][2]}

\* Does the mode denote a directory: "040000", or "40000" as read from the
\* wire, with or without its padding.
DenotesDirectory(mode) ==
    \/ StartsWith(mode, <<48, 52>>)
    \/ StartsWith(mode, <<SP, 52>>)
    \/ (Len(mode) = 5 /\ mode[1] = 52)

\* The Git tree ordering key: the name, with `/` appended iff the mode
\* denotes a directory.
GitTreeKey(mode, name) ==
    IF DenotesDirectory(mode) THEN name \o <<47>> ELSE name

GitCanonical(ls) ==
    \A i \in 1..(Len(ls) - 1) :
        StrLE(GitTreeKey(ls[i][1], ls[i][2]), GitTreeKey(ls[i + 1][1], ls[i + 1][2]))

RECURSIVE TreeWire(_)
TreeWire(ls) ==
    IF ls = <<>> THEN <<>>
    ELSE (IF Head(ls)[1] = MODE_DIR THEN MODE_DIR_WIRE ELSE Head(ls)[1])
         \o <<SP>> \o Head(ls)[2] \o <<NUL>> \o Head(ls)[3] \o TreeWire(Tail(ls))

TreeMemory(ls) ==
    [i \in 1..Len(ls) |-> GitTreeLeaf(ls[i][1], ls[i][2], HexOfBytes(ls[i][3]))]

TrIdle == [pc |-> "idle", src |-> "", canon |-> TRUE, raw |-> <<>>,
           items |-> <<>>, out |-> Raise("")]

(***************************************************************************)
(* The repository right after repo_create (lines 147-199): no object, and  *)
(* HEAD naming the unborn branch master.                                   *)
(***************************************************************************)
T_HEAD_INIT == T_ref \o T_refs_heads \o T_master \o <<LF>>  \* line 175

NoObjects == [k \in {} |-> [data |-> <<>>, writes |-> 0]]
FreshRefs == [k \in {T_HEAD} |-> T_HEAD_INIT]

LastOf(op, name, fmt, follow, obj, res) ==
    [op |-> op, name |-> name, fmt |-> fmt, follow |-> follow, obj |-> obj,
     res |-> res]

NoOp == LastOf("", <<>>, <<>>, FALSE, GitBlob(<<>>), Raise(""))

RrIdle == [pc |-> "idle", start |-> <<>>, ref |-> <<>>, depth |-> 0,
           visited |-> {}, res |-> Raise("")]

\* No index file, an empty worktree, no command at work.
NoIndex == [none |-> TRUE, s |-> <<>>]
NoFiles == [k \in {} |-> <<>>]
IcIdle == [pc |-> "idle"]
CmIdle == [pc |-> "idle"]

StageIdle ==
    /\ index = NoIndex
    /\ wt = NoFiles
    /\ ic = IcIdle
    /\ cm = CmIdle

RepoIdle ==
    /\ objects = NoObjects
    /\ refs = FreshRefs
    /\ last = NoOp
    /\ rr = RrIdle
    /\ StageIdle

(***************************************************************************)
(* The KVLM codec as a state machine: one input, parsed and serialized.    *)
(***************************************************************************)
KvIdle == [pc |-> "idle", raw |-> <<>>, out |-> Raise("")]

KvInit ==
    /\ kv \in {[pc |-> "input", raw |-> r, out |-> Raise("")] : r \in KvInputs}
    /\ tr = TrIdle
    /\ RepoIdle

\* GitCommit(data).serialize(): kvlm_parse is called with no accumulator.
KvRoundTrip ==
    /\ kv.pc = "input"
    /\ kv' = [kv EXCEPT !.pc = "roundtrip", !.out = commit_roundtrip(kv.raw)]
    /\ UNCHANGED <<index, wt, ic, cm, tr, objects, refs, last, rr>>

\* kvlm_parse called with an accumulator.
KvParseAcc ==
    /\ kv.pc = "input"
    /\ kv' = [kv EXCEPT !.pc = "parsed",
                        !.out = kvlm_parse(kv.raw, 0, OrderedDict, 0)]
    /\ UNCHANGED <<index, wt, ic, cm, tr, objects, refs, last, rr>>

\* kvlm_serialize of a parsed KVLM.
KvSerialize ==
    /\ kv.pc = "parsed"
    /\ kv.out.err = ""
    /\ kv' = [kv EXCEPT !.pc = "serialized", !.out = kvlm_serialize(kv.out.val)]
    /\ UNCHANGED <<index, wt, ic, cm, tr, objects, refs, last, rr>>

KvNext == KvRoundTrip \/ KvParseAcc \/ KvSerialize

SpecKvlm == KvInit /\ [][KvNext]_vars

(***************************************************************************)
(* The tree codec as a state machine: a tree given as payload bytes        *)
(* (GitTree(data)) or built in memory (GitTree() and items.append), then   *)
(* serialized.                                                             *)
(***************************************************************************)
TreeInit ==
    /\ kv = KvIdle
    /\ RepoIdle
    /\ tr \in {[pc |-> "bytes", src |-> "bytes", canon |-> GitCanonical(ls),
                raw |-> TreeWire(ls), items |-> <<>>, out |-> Raise("")]
                  : ls \in TreeLeafLists}
          \cup {[pc |-> "memory", src |-> "memory", canon |-> GitCanonical(ls),
                 raw |-> <<>>, items |-> TreeMemory(ls), out |-> Raise("")]
                  : ls \in TreeLeafLists}

\* GitTree.deserialize (line 698).
TreeDeserialize ==
    /\ tr.pc = "bytes"
    /\ LET p == tree_parse(tr.raw)
       IN  tr' = IF p.err = ""
                 THEN [tr EXCEPT !.pc = "parsed", !.items = p.val]
                 ELSE [tr EXCEPT !.pc = "failed", !.out = p]
    /\ UNCHANGED <<index, wt, ic, cm, kv, objects, refs, last, rr>>

\* GitTree.serialize (line 701): sorts obj.items in place, returns the bytes.
TreeSerialize ==
    /\ tr.pc \in {"parsed", "memory"}
    /\ tr' = [tr EXCEPT !.pc = "serialized",
                        !.items = tree_sort(tr.items),
                        !.out = tree_serialize(tr.items)]
    /\ UNCHANGED <<index, wt, ic, cm, kv, objects, refs, last, rr>>

TreeNext == TreeDeserialize \/ TreeSerialize

SpecTree == TreeInit /\ [][TreeNext]_vars

(***************************************************************************)
(* ref_resolve as a process, one call per step, on every reference store   *)
(* of three files holding indirect references, direct references or        *)
(* nothing.                                                                *)
(***************************************************************************)
T_x == <<120>>                                \* "x"
RefPaths == {T_HEAD, T_refs_heads \o T_master, T_refs_heads \o T_x}
RefOids == {HexOfBytes(t) : t \in TreeShas}
RefTexts == {T_ref \o p \o <<LF>> : p \in RefPaths}
            \cup {o \o <<LF>> : o \in RefOids} \cup {<<>>}
RefStores == UNION {[ps -> RefTexts] : ps \in SUBSET RefPaths}

RefsInit ==
    /\ kv = KvIdle
    /\ tr = TrIdle
    /\ objects = NoObjects
    /\ last = NoOp
    /\ refs \in RefStores
    /\ rr = RrIdle
    /\ StageIdle

\* The call ref_resolve(repo, r).
RefResolveStart(r) ==
    /\ rr.pc = "idle"
    /\ rr' = [pc |-> "call", start |-> r, ref |-> r, depth |-> 0,
              visited |-> {}, res |-> Raise("")]
    /\ UNCHANGED <<index, wt, ic, cm, kv, tr, objects, refs, last>>

\* One call of ref_resolve: it returns, or calls itself, or the
\* interpreter stops the recursion.
RefResolveStep ==
    /\ rr.pc = "call"
    /\ LET c == ref_resolve_call(refs, rr.ref)
       IN  rr' = IF rr.depth > RecursionLimit
                 THEN [rr EXCEPT !.pc = "done", !.res = Raise("RecursionError")]
                 ELSE IF c.kind = "return"
                 THEN [rr EXCEPT !.pc = "done", !.res = Ok(c.val)]
                 ELSE [rr EXCEPT !.ref = c.val.s, !.depth = @ + 1,
                                 !.visited = @ \cup {rr.ref}]
    /\ UNCHANGED <<index, wt, ic, cm, kv, tr, objects, refs, last>>

RefsNext == (\E r \in RefPaths : RefResolveStart(r)) \/ RefResolveStep

SpecRefs == RefsInit /\ [][RefsNext]_vars

(***************************************************************************)
(* The repository as a state machine: the library calls and commands that  *)
(* read and write the object store and the reference store.                *)
(***************************************************************************)
T_v1 == <<118, 49>>                           \* "v1"
B_m == <<109>>                                \* b"m"
B_commit_word == B_commit                     \* b"commit", the type of a tag

\* The contents of worktree files handed to hash-object.
Files == {<<97>>, <<>>}

KvEntry(k, v) == [key |-> k, isnone |-> FALSE, islist |-> FALSE, vals |-> <<v>>]
KvMessage(v) == [key |-> <<>>, isnone |-> TRUE, islist |-> FALSE, vals |-> <<v>>]

\* The format in the header of a stored object.
StoredFmt(store, k) ==
    LET raw == zlib_decompress(store[k].data).val
    IN  Slice(raw, 0, Find(raw, SP, 0))

\* The objects a caller can build in memory over the store: blobs, trees
\* of stored blobs, commits of stored trees, tags of stored blobs and
\* commits.
Writable(store) ==
    {GitBlob(<<97>>), GitBlob(<<98>>), GitTree(<<>>)}
    \cup {GitTree(<<GitTreeLeaf(MODE_FILE, <<97>>, k)>>)
             : k \in {j \in DOMAIN store : StoredFmt(store, j) = B_blob}}
    \cup {GitCommit(DictFrom(<<KvEntry(B_tree, k), KvMessage(B_m)>>))
             : k \in {j \in DOMAIN store : StoredFmt(store, j) = B_tree}}
    \cup {GitTag(DictFrom(<<KvEntry(B_object, k), KvEntry(B_type, B_commit_word),
                            KvMessage(B_m)>>))
             : k \in {j \in DOMAIN store : StoredFmt(store, j) \in {B_blob, B_commit}}}

\* The orders in which os.listdir can give the files of the store.
Listings(store) ==
    {ls \in [1..Cardinality(DOMAIN store) -> DOMAIN store] :
        \A i, j \in 1..Len(ls) : i # j => ls[i] # ls[j]}

\* The names handed to the resolver: HEAD, the empty name, a tag or branch
\* name, 4-digit prefixes of stored blobs and full hashes of stored objects.
ShortNames(store) ==
    {T_v1} \cup {Slice(k, 0, 4) : k \in {j \in DOMAIN store : StoredFmt(store, j) = B_blob}}
FindNames(store) == {T_HEAD, <<>>} \cup ShortNames(store) \cup DOMAIN store

RepoInit ==
    /\ kv = KvIdle
    /\ tr = TrIdle
    /\ RepoIdle

\* The store and the outcome after object_write returned w.
ObjectWritten(o, w) ==
    /\ Cardinality(DOMAIN w.store) <= MaxObjects
    /\ objects' = w.store
    /\ last' = LastOf("object_write", <<>>, <<>>, FALSE, o,
                      [err |-> w.err, val |-> Str(w.val), existed |-> w.existed])

\* object_write(o, repo)
ObjectWrite(o) ==
    /\ last.op = ""
    /\ ObjectWritten(o, object_write(o, TRUE, objects))
    /\ UNCHANGED <<index, wt, ic, cm, kv, tr, refs, rr>>

\* The outcome of hash-object: with -w, repo_file() is called without its
\* argument; without, h is the outcome of object_hash.
HashObjectResult(write, h) ==
    IF write THEN Raise("TypeError") ELSE [err |-> h.err, val |-> Str(h.val)]

\* cmd_hash_object (lines 463-470) on a file of content data.
CmdHashObject(data, fmt, write) ==
    /\ last.op = ""
    /\ last' = LastOf("hash-object", data, fmt, write, GitBlob(<<>>),
                      HashObjectResult(write,
                                       object_hash(data, fmt, FALSE, objects)))
    /\ UNCHANGED <<index, wt, ic, cm, kv, tr, objects, refs, rr>>

\* The outcome r of object_read as the caller sees it.
ObjectReadLast(sha, r) ==
    LastOf("object_read", sha, <<>>, FALSE,
           IF r.err = "" THEN r.val.obj ELSE GitBlob(<<>>),
           [err |-> r.err, none |-> r.err = "" /\ r.val.none])

\* object_read(repo, sha)
ObjectRead(sha) ==
    /\ last.op = ""
    /\ last' = ObjectReadLast(sha, object_read(objects, sha))
    /\ UNCHANGED <<index, wt, ic, cm, kv, tr, objects, refs, rr>>

\* object_find(repo, name, fmt, follow), the directory listed in order ls
ObjectFind(name, fmt, follow, ls) ==
    /\ last.op = ""
    /\ last' = LastOf("object_find", name, fmt, follow, GitBlob(<<>>),
                      object_find(objects, refs, name, fmt, follow, ls))
    /\ UNCHANGED <<index, wt, ic, cm, kv, tr, objects, refs, rr>>

\* The reference store and the outcome after ref_create or tag_create
\* returned c.
RefsWritten(op, name, ref, flag, c) ==
    /\ Cardinality(DOMAIN c.refs) <= MaxRefs + 1
    /\ refs' = c.refs
    /\ last' = LastOf(op, name, ref, flag, GitBlob(<<>>), [err |-> c.err])

\* ref_create(repo, ref_name, sha)
RefCreate(ref_name, sha) ==
    /\ last.op = ""
    /\ RefsWritten("ref_create", ref_name, <<>>, FALSE,
                   ref_create(refs, ref_name, Str(sha)))
    /\ UNCHANGED <<index, wt, ic, cm, kv, tr, objects, rr>>

\* tag_create(repo, name, ref, create_tag_object)
TagCreate(name, ref, create_tag_object, ls) ==
    /\ last.op = ""
    /\ RefsWritten("tag_create", name, ref, create_tag_object,
                   tag_create(objects, refs, name, ref, create_tag_object, ls))
    /\ UNCHANGED <<index, wt, ic, cm, kv, tr, objects, rr>>

\* cmd_tag (lines 899-910) with a name: tag_create is called with the
\* keyword type, which it does not take.
CmdTag(name, ref, a) ==
    /\ last.op = ""
    /\ last' = LastOf("tag", name, ref, a, GitBlob(<<>>), Raise("TypeError"))
    /\ UNCHANGED <<index, wt, ic, cm, kv, tr, objects, refs, rr>>

\* The operation has returned to its caller; the next one can begin.
Return ==
    /\ last.op # ""
    /\ last' = NoOp
    /\ UNCHANGED <<index, wt, ic, cm, kv, tr, objects, refs, rr>>

RepoNext ==
    \/ Return
    \/ \E o \in Writable(objects) : ObjectWrite(o)
    \/ \E data \in Files, fmt \in {B_blob, B_tree, B_commit, B_tag},
          write \in BOOLEAN : CmdHashObject(data, fmt, write)
    \/ \E sha \in DOMAIN objects \cup RefOids : ObjectRead(sha)
    \/ \E name \in FindNames(objects),
          fmt \in {<<>>, B_blob, B_tree, B_commit},
          follow \in BOOLEAN, ls \in Listings(objects) :
            /\ (fmt = <<>> => follow)
            /\ ObjectFind(name, fmt, follow, ls)
    \/ \E name \in ShortNames(objects), sha \in DOMAIN objects :
            RefCreate(T_heads \o name, sha)
    \/ \E ref \in {T_HEAD} \cup DOMAIN objects, a \in BOOLEAN,
          ls \in Listings(objects) : TagCreate(T_v1, ref, a, ls)
    \/ \E a \in BOOLEAN : CmdTag(T_v1, T_HEAD, a)

SpecRepo == RepoInit /\ [][RepoNext]_vars

(***************************************************************************)
(* Integers as bytes.  The model's integers stay below 2^31, so a value    *)
(* always fits four bytes and a field of four bytes never holds more.      *)
(***************************************************************************)
\* int.from_bytes(bs, "big")
RECURSIVE int_from_bytes(_)
int_from_bytes(bs) ==
    IF bs = <<>> THEN 0
    ELSE int_from_bytes(SubSeq(bs, 1, Len(bs) - 1)) * 256 + bs[Len(bs)]

\* n.to_bytes(w, "big") for w <= 4
to_bytes(n, w) ==
    IF n < 0 \/ (w < 4 /\ n >= 256 ^ w) THEN Raise("OverflowError")
    ELSE Ok([i \in 1..w |-> (n \div (256 ^ (w - i))) % 256])

(***************************************************************************)
(* The index: GitIndexEntry (lines 1065-1108), GitIndex (lines 1111-1120). *)
(***************************************************************************)
\* flags & 0xFFF is the length of a name shorter than this (line 1191).
NAME_LENGTH_MAX == 4095

B_DIRC == <<68, 73, 82, 67>>                  \* b"DIRC"

GitIndexEntry(ctime, mtime, dev, ino, mode_type, mode_perms, uid, gid, fsize, sha, flag_assume_valid, flag_stage, name) ==
    [ctime |-> ctime, mtime |-> mtime, dev |-> dev, ino |-> ino,
     mode_type |-> mode_type, mode_perms |-> mode_perms, uid |-> uid,
     gid |-> gid, fsize |-> fsize, sha |-> sha,
     flag_assume_valid |-> flag_assume_valid, flag_stage |-> flag_stage,
     name |-> name]

\* The class attribute GitIndex.entries when the module is loaded (line
\* 1113); the class attribute GitIndex.version is None (line 1112).
GitIndex_entries == <<>>

\* GitIndex(version, entries) with the class attribute entries holding cls.
\* The two assignments of __init__ are inside `if not entries` (lines
\* 1116-1120): given a non-empty list the instance gets no attribute of its
\* own, so that its version is None and its entries are the list of the
\* class (shared = TRUE: an append to them is an append to the class list).
GitIndex(version, entries, cls) ==
    IF entries = <<>>
    THEN [hasVersion |-> TRUE, version |-> version, entries |-> <<>>,
          shared |-> FALSE]
    ELSE [hasVersion |-> FALSE, version |-> 0, entries |-> cls,
          shared |-> TRUE]

(***************************************************************************)
(* index_read, lines 1123-1233.  A step of the entry loop returns the      *)
(* entry and the next value of idx.                                        *)
(***************************************************************************)
EntryRaise(e) == [err |-> e, val |-> <<>>, idx |-> 0]

\* Lines 1205-1231: the name decoded, idx aligned, the entry made.
index_read_made(content, idx, mode, flags, raw_name, nidx) ==
    IF utf8_decode(raw_name).err # "" THEN EntryRaise("UnicodeDecodeError")
    ELSE [err |-> "",
          val |-> GitIndexEntry(
              <<int_from_bytes(Slice(content, idx, idx + 4)),
                int_from_bytes(Slice(content, idx + 4, idx + 8))>>,
              <<int_from_bytes(Slice(content, idx + 8, idx + 12)),
                int_from_bytes(Slice(content, idx + 12, idx + 16))>>,
              int_from_bytes(Slice(content, idx + 16, idx + 20)),
              int_from_bytes(Slice(content, idx + 20, idx + 24)),
              mode \div 4096,
              mode % 512,
              int_from_bytes(Slice(content, idx + 28, idx + 32)),
              int_from_bytes(Slice(content, idx + 32, idx + 36)),
              int_from_bytes(Slice(content, idx + 36, idx + 40)),
              sha_format(Slice(content, idx + 40, idx + 60)),
              (flags \div 32768) % 2 # 0,
              ((flags \div 4096) % 4) * 4096,
              utf8_decode(raw_name).val),
          idx |-> 8 * ((nidx + 7) \div 8)]

\* Lines 1189-1203: the name, by its length or up to the next NUL.
index_read_name(content, idx, mode, flags, name_length) ==
    IF name_length < NAME_LENGTH_MAX
    THEN IF idx + 62 + name_length >= Len(content)
         THEN EntryRaise("IndexError")
         ELSE IF content[idx + 62 + name_length + 1] # NUL
         THEN EntryRaise("AssertionError")
         ELSE index_read_made(content, idx, mode, flags,
                  Slice(content, idx + 62, idx + 62 + name_length),
                  idx + 62 + name_length + 1)
    ELSE index_read_made(content, idx, mode, flags,
             Slice(content, idx + 62,
                   Find(content, NUL, idx + 62 + NAME_LENGTH_MAX)),
             Find(content, NUL, idx + 62 + NAME_LENGTH_MAX) + 1)

\* Lines 1158-1186: the assertions on the fixed part of an entry.
index_read_flags(content, idx, mode, flags) ==
    IF (mode \div 4096) \notin {8, 10, 14} THEN EntryRaise("AssertionError")
    ELSE IF (flags \div 16384) % 2 # 0 THEN EntryRaise("AssertionError")
    ELSE index_read_name(content, idx, mode, flags, flags % 4096)

index_read_entry(content, idx) ==
    IF int_from_bytes(Slice(content, idx + 24, idx + 26)) # 0
    THEN EntryRaise("AssertionError")
    ELSE index_read_flags(content, idx,
             int_from_bytes(Slice(content, idx + 26, idx + 28)),
             int_from_bytes(Slice(content, idx + 60, idx + 62)))

RECURSIVE index_read_entries(_, _, _, _)
index_read_next(content, n, entries, r) ==
    IF r.err # "" THEN Raise(r.err)
    ELSE index_read_entries(content, r.idx, n - 1, Append(entries, r.val))

index_read_entries(content, idx, n, entries) ==
    IF n = 0 THEN Ok(entries)
    ELSE index_read_next(content, n, entries, index_read_entry(content, idx))

index_read_built(version, r, cls) ==
    IF r.err # "" THEN r ELSE Ok(GitIndex(version, r.val, cls))

\* Lines 1129-1140 and 1233, on the bytes of the file.
index_read_raw(raw, cls) ==
    IF Slice(raw, 0, 4) # B_DIRC THEN Raise("AssertionError")
    ELSE IF int_from_bytes(Slice(raw, 4, 8)) # 2 THEN Raise("AssertionError")
    ELSE index_read_built(int_from_bytes(Slice(raw, 4, 8)),
             index_read_entries(SliceFrom(raw, 12), 0,
                 int_from_bytes(Slice(raw, 8, 12)), <<>>),
             cls)

\* index_read(repo): file is the index file, absent (none) or its bytes.
index_read(file, cls) ==
    IF file.none THEN Ok(GitIndex(2, <<>>, cls))
    ELSE index_read_raw(file.s, cls)

(***************************************************************************)
(* index_write, lines 1542-1598.  The file is opened for writing, which    *)
(* empties it, and is closed when the function leaves, normally or by an   *)
(* exception: the result carries the bytes written until then.             *)
(***************************************************************************)
\* One more f.write(r.val), where the evaluation of the argument raised
\* r.err; nothing happens after an exception.
Emit(acc, r) ==
    IF acc.err # "" THEN acc
    ELSE IF r.err # "" THEN [err |-> r.err, val |-> acc.val]
    ELSE Ok(acc.val \o r.val)

RECURSIVE EmitAll(_, _)
EmitAll(acc, rs) ==
    IF rs = <<>> THEN acc ELSE EmitAll(Emit(acc, Head(rs)), Tail(rs))

\* Lines 1590-1598: the padding after an entry that ends at idx.
index_write_pad(idx) ==
    IF idx % 8 # 0 THEN <<Ok(Zeros(8 - (idx % 8), NUL))>> ELSE <<>>

\* Lines 1556-1588: the writes of one entry.  mode_perms is below 2^12 and
\* the three parts of the flags have no bit in common in every entry read
\* or made, so that `|` is a sum.
index_write_entry(e) ==
    << to_bytes(e.ctime[1], 4), to_bytes(e.ctime[2], 4),
       to_bytes(e.mtime[1], 4), to_bytes(e.mtime[2], 4),
       to_bytes(e.dev, 4), to_bytes(e.ino, 4),
       to_bytes(e.mode_type * 4096 + e.mode_perms, 4),
       to_bytes(e.uid, 4), to_bytes(e.gid, 4), to_bytes(e.fsize, 4),
       sha_to_bytes(e.sha),
       to_bytes((IF e.flag_assume_valid THEN 32768 ELSE 0) + e.flag_stage
                + Min(Len(utf8_encode(e.name)), NAME_LENGTH_MAX), 2),
       Ok(utf8_encode(e.name)),
       to_bytes(0, 1) >>

RECURSIVE index_write_entries(_, _)
index_write_entries(entries, idx) ==
    IF entries = <<>> THEN <<>>
    ELSE index_write_entry(Head(entries))
         \o index_write_pad(idx + 62 + Len(utf8_encode(Head(entries).name)) + 1)
         \o index_write_entries(Tail(entries),
                8 * ((idx + 62 + Len(utf8_encode(Head(entries).name)) + 8)
                     \div 8))

\* index_write(repo, index): the outcome, and in val the bytes of the file.
index_write(ix) ==
    IF ~ix.hasVersion THEN [err |-> "AttributeError", val |-> B_DIRC]
    ELSE EmitAll(Ok(B_DIRC),
             <<to_bytes(ix.version, 4), to_bytes(Len(ix.entries), 4)>>
             \o index_write_entries(ix.entries, 0))

(***************************************************************************)
(* Well-formed version 2 index files, as Git lays them out: a header of    *)
(* `DIRC`, the version and the entry count, then per entry 62 bytes of     *)
(* fixed fields, the name and one to eight NULs up to a multiple of eight  *)
(* bytes; the entries in ascending order of name, no extension, a name of  *)
(* NAME_LENGTH_MAX bytes or more recorded with the length NAME_LENGTH_MAX. *)
(***************************************************************************)
\* Largest number of entries of a generated index file.
MaxEntries == 2

\* The two bytes of the modes 100644, 120000 and 160000.
IndexModes == {<<129, 164>>, <<160, 0>>, <<224, 0>>}
IndexNames == {<<97>>, <<98>>,
               [i \in 1..NAME_LENGTH_MAX |-> 121],
               [i \in 1..(NAME_LENGTH_MAX + 1) |-> 122]}
IndexOid == [i \in 1..ShaBytes |-> IF i = 1 THEN 0 ELSE i]

\* An entry as bytes: all times and ids 1, the size 2.
IndexEntryWire(mode, assume_valid, name) ==
    LET n == Min(Len(name), NAME_LENGTH_MAX)
        body == <<0, 0, 0, 1,  0, 0, 0, 1,  0, 0, 0, 1,  0, 0, 0, 1,
                  0, 0, 0, 1,  0, 0, 0, 1,  0, 0>> \o mode
                \o <<0, 0, 0, 1,  0, 0, 0, 1,  0, 0, 0, 2>> \o IndexOid
                \o <<(IF assume_valid THEN 128 ELSE 0) + (n \div 256), n % 256>>
                \o name
    IN  body \o Zeros(8 - (Len(body) % 8), NUL)

IndexWireEntries ==
    {[name |-> n, wire |-> IndexEntryWire(m, a, n)]
        : n \in IndexNames, m \in IndexModes, a \in BOOLEAN}

RECURSIVE IndexWireConcat(_)
IndexWireConcat(es) ==
    IF es = <<>> THEN <<>> ELSE Head(es).wire \o IndexWireConcat(Tail(es))

IndexFiles ==
    {B_DIRC \o <<0, 0, 0, 2,  0, 0, 0, Len(es)>> \o IndexWireConcat(es)
        : es \in UNION {{l \in [1..n -> IndexWireEntries] :
                            \A i \in 1..(n - 1) :
                                /\ l[i].name # l[i + 1].name
                                /\ StrLE(l[i].name, l[i + 1].name)}
                        : n \in 0..MaxEntries}}

(***************************************************************************)
(* The index codec as a state machine: an index file is read by            *)
(* index_read, and the index it returned is written by index_write.        *)
(***************************************************************************)
IndexInit ==
    /\ kv = KvIdle
    /\ tr = TrIdle
    /\ objects = NoObjects
    /\ refs = FreshRefs
    /\ last = NoOp
    /\ rr = RrIdle
    /\ wt = NoFiles
    /\ cm = CmIdle
    /\ index \in {Str(f) : f \in IndexFiles}
    /\ ic = [pc |-> "input", src |-> index.s, res |-> Raise("")]

IndexRead ==
    /\ ic.pc = "input"
    /\ ic' = [ic EXCEPT !.pc = "read",
                        !.res = index_read(index, GitIndex_entries)]
    /\ UNCHANGED <<kv, tr, objects, refs, last, rr, index, wt, cm>>

IndexWritten(w) ==
    /\ index' = Str(w.val)
    /\ ic' = [ic EXCEPT !.pc = "written",
                        !.res = [err |-> w.err, val |-> ic.res.val]]

IndexWrite ==
    /\ ic.pc = "read"
    /\ ic.res.err = ""
    /\ IndexWritten(index_write(ic.res.val))
    /\ UNCHANGED <<kv, tr, objects, refs, last, rr, wt, cm>>

IndexNext == IndexRead \/ IndexWrite

SpecIndex == IndexInit /\ [][IndexNext]_vars

(***************************************************************************)
(* rm (lines 1612-1647) and add (lines 1660-1713).  A path is the name of  *)
(* a file relative to the worktree; a path that starts with `../` lies     *)
(* outside of the worktree.  The outcome of a command is the exception     *)
(* raised, the index file, the store and the worktree it leaves, and the   *)
(* entries of the index object it last held.                               *)
(***************************************************************************)
T_dotdot == <<46, 46, 47>>                    \* "../"

Outside(path) == StartsWith(path, T_dotdot)

StageRes(err, file, store, w, entries) ==
    [err |-> err, index |-> file, store |-> store, wt |-> w,
     entries |-> entries]

\* list.remove(x): the first occurrence goes.
RECURSIVE ListRemove(_, _)
ListRemove(l, x) ==
    IF l = <<>> THEN <<>>
    ELSE IF Head(l) = x THEN Tail(l)
    ELSE <<Head(l)>> \o ListRemove(Tail(l), x)

\* Lines 1629-1639: the entries split into those kept and those removed.
RECURSIVE rm_loop(_, _, _, _)
rm_loop(entries, abspaths, kept, remove) ==
    IF entries = <<>>
    THEN [kept |-> kept, remove |-> remove, abspaths |-> abspaths]
    ELSE IF \E i \in 1..Len(abspaths) : abspaths[i] = Head(entries).name
    THEN rm_loop(Tail(entries), ListRemove(abspaths, Head(entries).name),
                 kept, Append(remove, Head(entries).name))
    ELSE rm_loop(Tail(entries), abspaths, Append(kept, Head(entries)), remove)

\* Lines 1641-1643: os.unlink of each removed path.
RECURSIVE rm_unlink(_, _)
rm_unlink(w, remove) ==
    IF remove = <<>> THEN [err |-> "", wt |-> w]
    ELSE IF Head(remove) \notin DOMAIN w
    THEN [err |-> "FileNotFoundError", wt |-> w]
    ELSE rm_unlink([k \in DOMAIN w \ {Head(remove)} |-> w[k]], Tail(remove))

\* Lines 1645-1646: the index gets the kept entries and is written.
rm_written(store, w, kept, wr) ==
    StageRes(wr.err, Str(wr.val), store, w, kept)

rm_unlinked(file, store, ix, kept, u) ==
    IF u.err # "" THEN StageRes(u.err, file, store, u.wt, ix.entries)
    ELSE rm_written(store, u.wt, kept,
             index_write([ix EXCEPT !.entries = kept, !.shared = FALSE]))

\* Lines 1638-1643, s the outcome of the loop over the entries.
rm_split(file, store, w, delete, skip_missing, ix, s) ==
    IF Len(s.abspaths) > 0 /\ ~skip_missing
    THEN StageRes("Exception", file, store, w, ix.entries)
    ELSE rm_unlinked(file, store, ix, s.kept,
             rm_unlink(w, IF delete THEN s.remove ELSE <<>>))

\* Lines 1614-1627, r the outcome of index_read.
rm_read(file, store, w, paths, delete, skip_missing, r) ==
    IF r.err # "" THEN StageRes(r.err, file, store, w, <<>>)
    ELSE IF \E i \in 1..Len(paths) : Outside(paths[i])
    THEN StageRes("Exception", file, store, w, r.val.entries)
    ELSE rm_split(file, store, w, delete, skip_missing, r.val,
             rm_loop(r.val.entries, paths, <<>>, <<>>))

\* rm(repo, paths, delete, skip_missing) in a process whose GitIndex class
\* holds the entries cls.
rm(file, store, w, paths, delete, skip_missing, cls) ==
    rm_read(file, store, w, paths, delete, skip_missing, index_read(file, cls))

\* Lines 1685-1709: the entry add makes of the file `name` holding data,
\* stored as the blob sha.  os.stat is modelled by fixed times and ids;
\* the stage flag False counts as 0 in the flags.
add_entry(name, data, sha) ==
    GitIndexEntry(<<1, 0>>, <<1, 0>>, 1, 1, 8, 420, 1, 1, Len(data), sha,
                  FALSE, 0, name)

\* Lines 1684-1710: the loop over clean_paths, each file hashed into the
\* store and its entry made: [err, store, entries].
RECURSIVE add_entries(_, _, _, _)
add_entries_next(w, clean, entries, h) ==
    IF h.err # "" THEN [err |-> h.err, store |-> h.store, entries |-> entries]
    ELSE add_entries(h.store, w, Tail(clean),
             Append(entries, add_entry(Head(clean), w[Head(clean)], h.val)))

add_entries(store, w, clean, entries) ==
    IF clean = <<>> THEN [err |-> "", store |-> store, entries |-> entries]
    ELSE add_entries_next(w, clean, entries,
             object_hash(w[Head(clean)], B_blob, TRUE, store))

\* The body of `for path in paths` (lines 1669-1713), which holds the whole
\* rest of the function: at its i-th pass the index is read, an entry is
\* appended for each of the first i paths and the index is written.
RECURSIVE add_loop(_, _, _, _, _, _, _)
add_written(store, w, paths, i, cls, entries, wr) ==
    IF wr.err # "" THEN StageRes(wr.err, Str(wr.val), store, w, entries)
    ELSE add_loop(Str(wr.val), store, w, paths, i + 1, cls, entries)

add_hashed(file, w, paths, i, cls, ix, h) ==
    IF h.err # "" THEN StageRes(h.err, file, h.store, w, ix.entries)
    ELSE add_written(h.store, w, paths, i,
             IF ix.shared THEN h.entries ELSE cls,
             h.entries,
             index_write([ix EXCEPT !.entries = h.entries]))

add_read(file, store, w, paths, i, cls, r) ==
    IF r.err # "" THEN StageRes(r.err, file, store, w, <<>>)
    ELSE add_hashed(file, w, paths, i, cls, r.val,
             add_entries(store, w, SubSeq(paths, 1, i), r.val.entries))

add_loop(file, store, w, paths, i, cls, entries) ==
    IF i > Len(paths) THEN StageRes("", file, store, w, entries)
    ELSE IF Outside(paths[i]) \/ paths[i] \notin DOMAIN w
    THEN StageRes("Exception", file, store, w, entries)
    ELSE add_read(file, store, w, paths, i, cls, index_read(file, cls))

\* Lines 1661-1662, r the outcome of the rm that opens add.
add_after_rm(paths, cls, r) ==
    IF r.err # "" THEN r
    ELSE add_loop(r.index, r.store, r.wt, paths, 1, cls, r.entries)

\* add(repo, paths) in a fresh process.
add(file, store, w, paths) ==
    add_after_rm(paths, GitIndex_entries,
        rm(file, store, w, paths, FALSE, TRUE, GitIndex_entries))

(***************************************************************************)
(* tree_from_index, lines 1750-1816.                                       *)
(***************************************************************************)
\* The position of the last `/` of p, 0 when it has none.
LastSlash(p) ==
    IF \E i \in 1..Len(p) : p[i] = 47
    THEN CHOOSE i \in 1..Len(p) :
             p[i] = 47 /\ \A j \in (i + 1)..Len(p) : p[j] # 47
    ELSE 0

\* str.rstrip("/")
RECURSIVE RStripSlash(_)
RStripSlash(p) ==
    IF p # <<>> /\ p[Len(p)] = 47
    THEN RStripSlash(SubSeq(p, 1, Len(p) - 1)) ELSE p

\* os.path.dirname(p): p up to its last `/`, the trailing slashes of that
\* removed unless it is made of slashes only.
DirName(p) ==
    IF RStripSlash(SubSeq(p, 1, LastSlash(p))) = <<>>
    THEN SubSeq(p, 1, LastSlash(p))
    ELSE RStripSlash(SubSeq(p, 1, LastSlash(p)))

\* os.path.basename(p)
BaseName(p) == SubSeq(p, LastSlash(p) + 1, Len(p))

\* The octal digits of n, at least `width` of them ("{:0<width>o}").
RECURSIVE OctDigits(_)
OctDigits(n) ==
    IF n < 8 THEN <<48 + n>> ELSE OctDigits(n \div 8) \o <<48 + (n % 8)>>

Oct(n, width) == Zeros(Max(width - Len(OctDigits(n)), 0), 48) \o OctDigits(n)

\* The dict `contents`: directories in insertion order, each with its list.
ContentsHas(contents, key) == \E i \in 1..Len(contents) : contents[i].key = key

ContentsGet(contents, key) ==
    contents[CHOOSE i \in 1..Len(contents) : contents[i].key = key].items

\* contents[key].append(item)
ContentsAppend(contents, key, item) ==
    [i \in 1..Len(contents) |->
        IF contents[i].key = key
        THEN [key |-> key, items |-> Append(contents[i].items, item)]
        ELSE contents[i]]

\* Lines 1762-1765: the directories from key up to the root get a list.
RECURSIVE tree_from_index_keys(_, _)
tree_from_index_keys(contents, key) ==
    IF key = <<>> THEN contents
    ELSE tree_from_index_keys(
             IF ContentsHas(contents, key) THEN contents
             ELSE Append(contents, [key |-> key, items |-> <<>>]),
             DirName(key))

\* Lines 1783-1793: the leaf of a file entry.
tree_from_index_leaf(entry) ==
    GitTreeLeaf(Oct(entry.mode_type, 2) \o Oct(entry.mode_perms, 4),
                BaseName(entry.name), entry.sha)

\* Lines 1755-1768: the entries filed under their directories.  (The leaf
\* of an entry is made here rather than when its tree is built.)
RECURSIVE tree_from_index_contents(_, _)
tree_from_index_contents(entries, contents) ==
    IF entries = <<>> THEN contents
    ELSE tree_from_index_contents(Tail(entries),
             ContentsAppend(
                 tree_from_index_keys(contents, DirName(Head(entries).name)),
                 DirName(Head(entries).name),
                 tree_from_index_leaf(Head(entries))))

\* Line 1774: sorted(keys, key=len, reverse=True), a stable sort.
RECURSIVE SortedInsert(_, _)
SortedInsert(sorted, k) ==
    IF sorted = <<>> THEN <<k>>
    ELSE IF Len(Head(sorted)) >= Len(k)
    THEN <<Head(sorted)>> \o SortedInsert(Tail(sorted), k)
    ELSE <<k>> \o sorted

\* The keys left in the order of their insertion, the root first: what
\* line 1774 would give without the sort.
tree_from_index_unsorted(contents, sorted) ==
    sorted \o [i \in 1..Len(contents) |-> contents[i].key]

RECURSIVE tree_from_index_sorted(_, _)
tree_from_index_sorted(contents, sorted) ==
    IF contents = <<>> THEN sorted
    ELSE tree_from_index_sorted(Tail(contents),
                                SortedInsert(sorted, Head(contents).key))

\* Lines 1782-1814: one tree per directory, written to the store, and its
\* leaf appended to the list of its parent: [err, val: the last sha, store].
RECURSIVE tree_from_index_trees(_, _, _, _)
tree_from_index_written(paths, contents, wr) ==
    IF wr.err # "" THEN [err |-> wr.err, val |-> NoneStr, store |-> wr.store]
    ELSE tree_from_index_trees(Tail(paths),
             ContentsAppend(contents, DirName(Head(paths)),
                 GitTreeLeaf(MODE_DIR, BaseName(Head(paths)), wr.val)),
             wr.store, Str(wr.val))

tree_from_index_trees(paths, contents, store, sha) ==
    IF paths = <<>> THEN [err |-> "", val |-> sha, store |-> store]
    ELSE tree_from_index_written(paths, contents,
             object_write(GitTree(ContentsGet(contents, Head(paths))),
                          TRUE, store))

tree_from_index_built(contents, store) ==
    tree_from_index_trees(tree_from_index_sorted(contents, <<>>), contents,
                          store, NoneStr)

\* tree_from_index(repo, index) on the entries of index.  The loop of lines
\* 1762-1765 never ends for a name under the root directory `/`.
tree_from_index(entries, store) ==
    IF \E i \in 1..Len(entries) : StartsWith(entries[i].name, <<47>>)
    THEN [err |-> "Hang", val |-> NoneStr, store |-> store]
    ELSE tree_from_index_built(
             tree_from_index_contents(entries,
                 <<[key |-> <<>>, items |-> <<>>]>>),
             store)

(***************************************************************************)
(* commit_create (lines 1819-1837), branch_get_active (lines 1423-1430)    *)
(* and the ref update of cmd_commit (lines 1855-1865).                     *)
(***************************************************************************)
B_parent == <<112, 97, 114, 101, 110, 116>>               \* b"parent"
B_author == <<97, 117, 116, 104, 111, 114>>               \* b"author"
B_committer == <<99, 111, 109, 109, 105, 116, 116, 101, 114>>  \* b"committer"
T_user == <<65, 32, 60, 97, 64, 98, 62>>                  \* "A <a@b>"
T_now == <<49>>               \* datetime.now() as seconds: "1"
T_tz == <<45, 48, 48, 48, 48>>  \* the offset 0 formatted by line 1829: "-0000"

\* gitconfig_user_get(gitconfig_read()), lines 1743-1747: None without a
\* user section holding name and email.
gitconfig_user_get(hasUser) == IF hasUser THEN Str(T_user) ELSE NoneStr

\* Lines 1820-1823: the commit with its tree and, if parent is true (not
\* None, not empty), its parent.
commit_create_head(tree, parent) ==
    IF Truthy(parent)
    THEN DictSet(DictSet(DictFrom(<<>>), FALSE, B_tree, tree),
                 FALSE, B_parent, parent.s)
    ELSE DictSet(DictFrom(<<>>), FALSE, B_tree, tree)

\* Lines 1831-1835: author, committer and message.
commit_create_kvlm(head, author, message) ==
    DictSet(DictSet(DictSet(head, FALSE, B_author, author),
                    FALSE, B_committer, author),
            TRUE, <<>>, message)

\* commit_create returning the sha of the commit without line 1837 having
\* written it.
commit_create_unwritten(store, tree, parent, author, timestamp, message) ==
    [err |-> IF author.none THEN "TypeError"
             ELSE IF message.none THEN "AttributeError" ELSE "",
     val |-> IF author.none \/ message.none THEN <<>>
             ELSE object_write(
                      GitCommit(commit_create_kvlm(
                          commit_create_head(tree, parent),
                          author.s \o <<SP>> \o timestamp \o <<SP>> \o T_tz,
                          message.s)),
                      FALSE, store).val,
     store |-> store, existed |-> FALSE]

\* commit_create(repo, tree, parent, author, timestamp, message) in a
\* process of UTC offset 0: the outcome of object_write.
commit_create(store, tree, parent, author, timestamp, message) ==
    IF author.none
    THEN [err |-> "TypeError", val |-> <<>>, store |-> store,
          existed |-> FALSE]
    ELSE IF message.none
    THEN [err |-> "AttributeError", val |-> <<>>, store |-> store,
          existed |-> FALSE]
    ELSE object_write(
             GitCommit(commit_create_kvlm(commit_create_head(tree, parent),
                 author.s \o <<SP>> \o timestamp \o <<SP>> \o T_tz,
                 message.s)),
             TRUE, store)

\* branch_get_active(repo): the branch name, or none for False.
branch_get_active(rs) ==
    IF StartsWith(rs[T_HEAD], T_ref \o T_refs_heads)
    THEN Str(Slice(rs[T_HEAD], 16, -1))
    ELSE NoneStr

\* Does the directory of the file `path` of the gitdir exist: the gitdir,
\* refs/heads and refs/tags do (repo_create, lines 155-158), another
\* directory does when it holds a file.
RefDirExists(rs, path) ==
    \/ DirName(path) \in {<<>>, T_refs \o <<104, 101, 97, 100, 115>>, T_refs_tags}
    \/ \E k \in DOMAIN rs : StartsWith(k, DirName(path) \o <<47>>)

\* open(path, "w") followed by fd.write(text): [err, refs].
ref_write(rs, path, text) ==
    IF ~RefDirExists(rs, path) THEN [err |-> "FileNotFoundError", refs |-> rs]
    ELSE [err |-> "",
          refs |-> [k \in DOMAIN rs \cup {path} |->
                       IF k = path THEN text ELSE rs[k]]]

\* Lines 1855-1865: the ref update, commit the sha of the new commit.
commit_update_ref(rs, commit, active_branch) ==
    IF Truthy(active_branch)
    THEN ref_write(rs, T_refs_heads \o active_branch.s, commit \o <<LF>>)
    ELSE ref_write(rs, T_HEAD, <<LF>>)

(***************************************************************************)
(* The staging area and the commit pipeline as a state machine: a          *)
(* repository with a worktree, on which add, rm and commit run, each in    *)
(* a process of its own.  cmd_commit (lines 1840-1865) is taken in three   *)
(* steps: the trees, the commit object, the ref.  cm holds the command     *)
(* last run (op), its exception (err), the entries of the index object it  *)
(* held last (entries), whether the user is configured (user), and of a    *)
(* commit the root tree and the new commit.                                *)
(***************************************************************************)
\* Largest number of paths given to one add or rm.
MaxPaths == 2
\* Largest number of commit objects in the store.
MaxCommits == 3

T_a == <<97>>                                 \* "a"
T_b == <<98>>                                 \* "b"
T_out == T_dotdot \o <<111>>                  \* "../o", outside the worktree
T_fx == <<102, 47, 120>>                      \* "f/x", a branch name
T_sc == <<115, 47, 99>>                       \* "s/c", a file no longer there

StagePaths == {T_a, T_b, T_sc, T_out}
PathLists == UNION {[1..n -> StagePaths] : n \in 1..MaxPaths}
Worktree == [k \in {T_a, T_b} |-> IF k = T_a THEN <<97>> ELSE <<>>]

\* The empty root tree and a first commit of it, as commit leaves them.
FirstTree == tree_from_index(<<>>, NoObjects)
FirstCommit ==
    commit_create(FirstTree.store, FirstTree.val.s, NoneStr, Str(T_user),
                  T_now, Str(B_m))

\* The repositories commands start from: a fresh one (HEAD on the unborn
\* branch master), one with HEAD on the unborn branch f/x, one with a
\* first commit on master and HEAD on master, and that one with HEAD
\* detached at the commit.
StageRepos ==
    {[objects |-> NoObjects, refs |-> FreshRefs],
     [objects |-> NoObjects,
      refs |-> [k \in {T_HEAD} |-> T_ref \o T_refs_heads \o T_fx \o <<LF>>]],
     [objects |-> FirstCommit.store,
      refs |-> [k \in {T_HEAD, T_refs_heads \o T_master} |->
                   IF k = T_HEAD THEN T_HEAD_INIT
                   ELSE FirstCommit.val \o <<LF>>]],
     [objects |-> FirstCommit.store,
      refs |-> [k \in {T_HEAD, T_refs_heads \o T_master} |->
                   FirstCommit.val \o <<LF>>]]}

\* The index files commands start from: none, and one made by Git with
\* the entries `a` and `s/c`.
StageIndexes ==
    {NoIndex,
     Str(B_DIRC \o <<0, 0, 0, 2,  0, 0, 0, 2>>
         \o IndexEntryWire(<<129, 164>>, FALSE, T_a)
         \o IndexEntryWire(<<129, 164>>, FALSE, T_sc))}

CmOf(pc, op, err, entries, user, tree, commit) ==
    [pc |-> pc, op |-> op, err |-> err, entries |-> entries, user |-> user,
     tree |-> tree, commit |-> commit]

StageInit ==
    /\ kv = KvIdle
    /\ tr = TrIdle
    /\ last = NoOp
    /\ rr = RrIdle
    /\ ic = IcIdle
    /\ index \in StageIndexes
    /\ wt = Worktree
    /\ \E r \in StageRepos : objects = r.objects /\ refs = r.refs
    /\ cm \in {CmOf("idle", "", "", <<>>, u, <<>>, <<>>) : u \in BOOLEAN}

\* The state after the staging command op left with the outcome r.
Staged(op, r) ==
    /\ index' = r.index
    /\ objects' = r.store
    /\ wt' = r.wt
    /\ cm' = [cm EXCEPT !.op = op, !.err = r.err, !.entries = r.entries]

\* cmd_add, lines 1655-1657.
CmdAdd(paths) ==
    /\ cm.pc = "idle"
    /\ Staged("add", add(index, objects, wt, paths))
    /\ UNCHANGED <<kv, tr, refs, last, rr, ic>>

\* cmd_rm, lines 1607-1609.
CmdRm(paths) ==
    /\ cm.pc = "idle"
    /\ Staged("rm", rm(index, objects, wt, paths, TRUE, FALSE,
                       GitIndex_entries))
    /\ UNCHANGED <<kv, tr, refs, last, rr, ic>>

\* cmd_commit left by the exception err.
CommitFailed(err) == cm' = [cm EXCEPT !.pc = "idle", !.op = "commit", !.err = err]

\* Lines 1842-1844, t the outcome of tree_from_index.
CommitTreeBuilt(ix, t) ==
    /\ objects' = t.store
    /\ IF t.err # "" THEN CommitFailed(t.err)
       ELSE cm' = [cm EXCEPT !.pc = "tree", !.op = "commit", !.err = "",
                       !.entries = ix.entries, !.tree = t.val.s,
                       !.commit = <<>>]

CommitTreeRead(r) ==
    IF r.err # "" THEN CommitFailed(r.err) /\ UNCHANGED objects
    ELSE CommitTreeBuilt(r.val, tree_from_index(r.val.entries, objects))

\* The commit objects of the store.
Commits(store) == {k \in DOMAIN store : StoredFmt(store, k) = B_commit}

\* cmd_commit, first step (lines 1841-1844): the index is read and its
\* trees are written.
CommitTree ==
    /\ cm.pc = "idle"
    /\ Cardinality(Commits(objects)) < MaxCommits
    /\ CommitTreeRead(index_read(index, GitIndex_entries))
    /\ UNCHANGED <<kv, tr, refs, last, rr, index, wt, ic>>

CommitObjectWritten(c) ==
    /\ objects' = c.store
    /\ IF c.err # "" THEN CommitFailed(c.err)
       ELSE cm' = [cm EXCEPT !.pc = "commit", !.commit = c.val]

CommitObjectFound(f) ==
    IF f.err # "" THEN CommitFailed(f.err) /\ UNCHANGED objects
    ELSE CommitObjectWritten(
             commit_create(objects, cm.tree, f.val,
                 gitconfig_user_get(cm.user), T_now, Str(B_m)))

\* cmd_commit, second step (lines 1847-1854): the parent is looked up and
\* the commit object is written.
CommitObject ==
    /\ cm.pc = "tree"
    /\ CommitObjectFound(object_find(objects, refs, T_HEAD, <<>>, TRUE, <<>>))
    /\ UNCHANGED <<kv, tr, refs, last, rr, index, wt, ic>>

CommitRefWritten(u) ==
    /\ refs' = u.refs
    /\ cm' = [cm EXCEPT !.pc = "idle", !.err = u.err]

\* cmd_commit, third step (lines 1856-1865): the ref update.
CommitRef ==
    /\ cm.pc = "commit"
    /\ CommitRefWritten(commit_update_ref(refs, cm.commit,
                                          branch_get_active(refs)))
    /\ UNCHANGED <<kv, tr, objects, last, rr, index, wt, ic>>

StageNext ==
    \/ \E paths \in PathLists : CmdAdd(paths)
    \/ \E paths \in PathLists : CmdRm(paths)
    \/ CommitTree
    \/ CommitObject
    \/ CommitRef

SpecStage == StageInit /\ [][StageNext]_vars

(***************************************************************************)
(* tree_to_dict, lines 1441-1462.  The dict it returns is a function from  *)
(* path to sha.                                                            *)
(***************************************************************************)
\* The files of the store in some order (os.listdir); the order has no
\* part in what object_find returns for a full hash.
RECURSIVE StoreListing(_)
StoreListing(keys) ==
    IF keys = {} THEN <<>>
    ELSE <<CHOOSE k \in keys : TRUE>>
         \o StoreListing(keys \ {CHOOSE k \in keys : TRUE})

\* os.path.join(prefix, path) for a relative path
PathJoin(prefix, path) ==
    IF prefix = <<>> THEN path
    ELSE IF prefix[Len(prefix)] = 47 THEN prefix \o path
    ELSE prefix \o <<47>> \o path

\* ret[key] = val, ret.update(d)
DictPut(ret, key, val) ==
    [k \in DOMAIN ret \cup {key} |-> IF k = key THEN val ELSE ret[k]]

DictUpdate(ret, d) ==
    [k \in DOMAIN ret \cup DOMAIN d |-> IF k \in DOMAIN d THEN d[k] ELSE ret[k]]

NoDict == [k \in {} |-> <<>>]

RECURSIVE tree_to_dict(_, _, _, _, _)
RECURSIVE tree_to_dict_leaves(_, _, _, _, _, _)
\* Lines 1456-1457, sub the outcome of the recursive call.
tree_to_dict_sub(store, rs, items, prefix, ret, depth, sub) ==
    IF sub.err # "" THEN sub
    ELSE tree_to_dict_leaves(store, rs, Tail(items), prefix,
                             DictUpdate(ret, sub.val), depth)

\* Lines 1446-1460: the loop over the leaves.
tree_to_dict_leaves(store, rs, items, prefix, ret, depth) ==
    IF items = <<>> THEN Ok(ret)
    ELSE IF StartsWith(Head(items).mode, <<48, 52>>)
    THEN tree_to_dict_sub(store, rs, items, prefix, ret, depth,
             tree_to_dict(store, rs, Head(items).sha,
                          PathJoin(prefix, Head(items).path), depth + 1))
    ELSE tree_to_dict_leaves(store, rs, Tail(items), prefix,
             DictPut(ret, PathJoin(prefix, Head(items).path),
                     Head(items).sha),
             depth)

\* Line 1444 and on, tree the outcome of object_read.
tree_to_dict_read(store, rs, prefix, depth, tree) ==
    IF tree.err # "" THEN Raise(tree.err)
    ELSE IF tree.val.none THEN Raise("AttributeError")      \* None.items
    ELSE IF tree.val.obj.fmt # B_tree THEN Raise("AttributeError")
    ELSE tree_to_dict_leaves(store, rs, tree.val.obj.items, prefix, NoDict,
                             depth)

\* Lines 1443-1444, tree_sha the outcome of object_find.
tree_to_dict_found(store, rs, prefix, depth, tree_sha) ==
    IF tree_sha.err # "" THEN Raise(tree_sha.err)
    ELSE IF tree_sha.val.none THEN Raise("TypeError")       \* None[0:2]
    ELSE tree_to_dict_read(store, rs, prefix, depth,
                           object_read(store, tree_sha.val.s))

\* tree_to_dict(repo, ref, prefix) at recursion depth `depth`.
tree_to_dict(store, rs, ref, prefix, depth) ==
    IF depth > RecursionLimit THEN Raise("RecursionError")
    ELSE tree_to_dict_found(store, rs, prefix, depth,
             object_find(store, rs, ref, B_tree, TRUE,
                         StoreListing(DOMAIN store)))

(***************************************************************************)
(* cmd_status_head_index, lines 1465-1480.  What it prints is kept as the  *)
(* sequence of the lines printed for the index entries (<<kind, name>>)    *)
(* and the set of the names printed as deleted.                            *)
(***************************************************************************)
\* del head[key]
DictDel(head, key) == [k \in DOMAIN head \ {key} |-> head[k]]

StatusOut(err, out, deleted) == [err |-> err, out |-> out, deleted |-> deleted]

\* Lines 1469-1480: the loop over index.entries, then the keys left.
RECURSIVE cmd_status_head_index_entries(_, _, _)
cmd_status_head_index_entries(entries, head, out) ==
    IF entries = <<>> THEN StatusOut("", out, DOMAIN head)
    ELSE IF Head(entries).name \in DOMAIN head
    THEN cmd_status_head_index_entries(Tail(entries),
             DictDel(head, Head(entries).name),
             IF head[Head(entries).name] # Head(entries).sha
             THEN Append(out, <<"modified", Head(entries).name>>)
             ELSE out)
    ELSE cmd_status_head_index_entries(Tail(entries), head,
             Append(out, <<"added", Head(entries).name>>))

\* Line 1468 and on, head the outcome of tree_to_dict(repo, "HEAD").
cmd_status_head_index_head(entries, head) ==
    IF head.err # "" THEN StatusOut(head.err, <<>>, {})
    ELSE cmd_status_head_index_entries(entries, head.val, <<>>)

cmd_status_head_index(store, rs, entries) ==
    cmd_status_head_index_head(entries,
        tree_to_dict(store, rs, T_HEAD, <<>>, 0))

(***************************************************************************)
(* status as a state machine: a repository whose HEAD commit has the       *)
(* files a and d/c, or the empty tree, or no commit at all, and            *)
(* cmd_status_head_index run on it with an index object.                   *)
(***************************************************************************)
\* Largest number of entries of the index object given to status.
MaxStatusEntries == 2

T_d == <<100>>                                \* "d"
T_c == <<99>>                                 \* "c"
T_dc == <<100, 47, 99>>                       \* "d/c"

\* A tree object as Git stores it, its leaves given as for TreeWire.
TreeStored(store, ls) ==
    object_write_result(TRUE, store,
        B_tree \o <<SP>> \o Dec(Len(TreeWire(ls))) \o <<NUL>> \o TreeWire(ls))

BlobA == object_write(GitBlob(<<97>>), TRUE, NoObjects)
BlobB == object_write(GitBlob(<<98>>), TRUE, BlobA.store)
SubTree == TreeStored(BlobB.store, <<<<MODE_FILE, T_c, BytesOfHex(BlobB.val)>>>>)
RootTree ==
    TreeStored(SubTree.store,
               <<<<MODE_FILE, T_a, BytesOfHex(BlobA.val)>>,
                 <<MODE_DIR, T_d, BytesOfHex(SubTree.val)>>>>)
HeadCommit ==
    commit_create(RootTree.store, RootTree.val, NoneStr, Str(T_user),
                  T_now, Str(B_m))

\* The files of the HEAD commit of each repository: path and OID.
HeadFiles == [k \in {T_a, T_dc} |-> IF k = T_a THEN BlobA.val ELSE BlobB.val]

OnMaster(oid) ==
    [k \in {T_HEAD, T_refs_heads \o T_master} |->
        IF k = T_HEAD THEN T_HEAD_INIT ELSE oid \o <<LF>>]

\* flat: the files of the commit HEAD names; born: HEAD names a commit.
StatusRepos ==
    {[objects |-> HeadCommit.store, refs |-> OnMaster(HeadCommit.val),
      born |-> TRUE, flat |-> HeadFiles],
     [objects |-> HeadCommit.store,
      refs |-> [k \in {T_HEAD} |-> HeadCommit.val \o <<LF>>],
      born |-> TRUE, flat |-> HeadFiles],
     [objects |-> FirstCommit.store, refs |-> OnMaster(FirstCommit.val),
      born |-> TRUE, flat |-> NoDict],
     [objects |-> BlobB.store, refs |-> FreshRefs,
      born |-> FALSE, flat |-> NoDict]}

StatusNames == {T_a, T_b, T_dc}
StatusEntry(name, sha) == add_entry(name, <<>>, sha)
StatusEntrySet == {StatusEntry(n, s) : n \in StatusNames, s \in {BlobA.val, BlobB.val}}
\* The entry lists of an index: every name at most once.
StatusEntries ==
    {es \in UNION {[1..n -> StatusEntrySet] : n \in 0..MaxStatusEntries} :
        \A i, j \in 1..Len(es) : es[i].name = es[j].name => i = j}

StatusInit ==
    /\ kv = KvIdle
    /\ tr = TrIdle
    /\ last = NoOp
    /\ rr = RrIdle
    /\ ic = IcIdle
    /\ index = NoIndex
    /\ wt = NoFiles
    /\ \E r \in StatusRepos : objects = r.objects /\ refs = r.refs
    /\ cm = CmIdle

\* cmd_status_head_index(repo, index), the index object holding entries.
CmdStatusHeadIndex(entries) ==
    /\ cm.pc = "idle"
    /\ cm' = [pc |-> "status", entries |-> entries,
              res |-> cmd_status_head_index(objects, refs, entries)]
    /\ UNCHANGED <<kv, tr, objects, refs, last, rr, index, wt, ic>>

StatusNext == \E entries \in StatusEntries : CmdStatusHeadIndex(entries)

SpecStatus == StatusInit /\ [][StatusNext]_vars
(***************************************************************************)
(* The ignore rules: gitignore_parse1 and gitignore_parse (lines           *)
(* 1301-1322), GitIgnore (lines 1325-1331) and check_ignore (lines         *)
(* 1366-1406).  A rule is the pair <<pattern, value>>; a result that may   *)
(* be None is [none, b].                                                   *)
(***************************************************************************)
\* str.strip(): the white space at both ends removed.
WhiteSpace == {9, 10, 11, 12, 13, 32}
RECURSIVE LStrip(_)
LStrip(s) == IF s # <<>> /\ Head(s) \in WhiteSpace THEN LStrip(Tail(s)) ELSE s
RECURSIVE RStrip(_)
RStrip(s) ==
    IF s # <<>> /\ s[Len(s)] \in WhiteSpace
    THEN RStrip(SubSeq(s, 1, Len(s) - 1)) ELSE s
Strip(s) == LStrip(RStrip(s))

NoRule == [none |-> TRUE, rule |-> <<>>]
Rule(pattern, value) == [none |-> FALSE, rule |-> <<pattern, value>>]

\* Lines 1304-1311, raw stripped.
gitignore_parse1_stripped(raw) ==
    IF raw = <<>> \/ raw[1] = 35 THEN NoRule                       \* "#"
    ELSE IF raw[1] = 33 THEN Rule(Tail(raw), FALSE)                \* "!"
    ELSE IF raw[1] = 92 THEN Rule(Tail(raw), TRUE)                 \* "\"
    ELSE Rule(raw, TRUE)

gitignore_parse1(raw) == gitignore_parse1_stripped(Strip(raw))

\* gitignore_parse(lines): a parsed rule, being a pair, is never falsy.
RECURSIVE gitignore_parse(_)
gitignore_parse(lines) ==
    IF lines = <<>> THEN <<>>
    ELSE IF gitignore_parse1(Head(lines)).none
    THEN gitignore_parse(Tail(lines))
    ELSE <<gitignore_parse1(Head(lines)).rule>> \o gitignore_parse(Tail(lines))

\* GitIgnore(absolute, scoped): a list of rulesets, and a dict from
\* directory to ruleset.
GitIgnore(absolute, scoped) == [absolute |-> absolute, scoped |-> scoped]

ResNone == [none |-> TRUE, b |-> FALSE]
ResOf(b) == [none |-> FALSE, b |-> b]

\* fnmatch(path, pattern) at line 1369: the name fnmatch is bound to the
\* module (line 7, `import fnmatch`), and calling a module raises.
fnmatch(path, pattern) == Raise("TypeError")

\* check_ignore1(rules, path), the loop from rule i on.
RECURSIVE check_ignore1_from(_, _, _, _)
check_ignore1_matched(rules, path, i, result, m) ==
    IF m.err # "" THEN Raise(m.err)
    ELSE check_ignore1_from(rules, path, i + 1,
             IF m.val THEN ResOf(rules[i][2]) ELSE result)

check_ignore1_from(rules, path, i, result) ==
    IF i > Len(rules) THEN Ok(result)
    ELSE check_ignore1_matched(rules, path, i, result,
             fnmatch(path, rules[i][1]))

check_ignore1(rules, path) == check_ignore1_from(rules, path, 1, ResNone)

\* check_ignore_scoped(rules, path), the loop with parent as it stands.
RECURSIVE check_ignore_scoped_from(_, _, _)
check_ignore_scoped_up(rules, path, parent) ==
    IF parent = <<>> THEN Ok(ResNone)
    ELSE check_ignore_scoped_from(rules, path, DirName(parent))

check_ignore_scoped_result(rules, path, parent, result) ==
    IF result.err # "" THEN result
    ELSE IF ~result.val.none THEN result
    ELSE check_ignore_scoped_up(rules, path, parent)

check_ignore_scoped_from(rules, path, parent) ==
    IF parent \in DOMAIN rules
    THEN check_ignore_scoped_result(rules, path, parent,
             check_ignore1(rules[parent], path))
    ELSE check_ignore_scoped_up(rules, path, parent)

check_ignore_scoped(rules, path) ==
    check_ignore_scoped_from(rules, path, DirName(path))

\* check_ignore_absolute(rules, path), the loop from ruleset i on.
RECURSIVE check_ignore_absolute_from(_, _, _)
check_ignore_absolute_result(rules, path, i, result) ==
    IF result.err # "" THEN result
    ELSE IF ~result.val.none THEN result
    ELSE check_ignore_absolute_from(rules, path, i + 1)

check_ignore_absolute_from(rules, path, i) ==
    IF i > Len(rules) THEN Ok(ResOf(FALSE))
    ELSE check_ignore_absolute_result(rules, path, i,
             check_ignore1(rules[i], path))

check_ignore_absolute(rules, path) == check_ignore_absolute_from(rules, path, 1)

\* Lines 1402-1406, result the outcome of check_ignore_scoped.
check_ignore_relative(rules, path, result) ==
    IF result.err # "" THEN result
    ELSE IF ~result.val.none THEN result
    ELSE check_ignore_absolute(rules.absolute, path)

\* check_ignore(rules, path): Ok(ResOf(ignored)) or the exception.
check_ignore(rules, path) ==
    IF StartsWith(path, <<47>>) THEN Raise("Exception")
    ELSE check_ignore_relative(rules, path,
             check_ignore_scoped(rules.scoped, path))

(***************************************************************************)
(* check_ignore as a state machine: the rules of a repository, parsed from *)
(* the lines of its ignore files, and check_ignore run on a path.          *)
(***************************************************************************)
\* Largest number of lines of the .gitignore of the root directory.
MaxRules == 2

T_star_log == <<42, 46, 108, 111, 103>>                       \* "*.log"
T_not_keep == <<33, 107, 101, 101, 112, 46, 108, 111, 103>>   \* "!keep.log"
T_comment == <<35, 99>>                                       \* "#c"
T_keep_lf == <<32, 107, 101, 101, 112, 46, 108, 111, 103, 10>> \* " keep.log\n"
T_foo_log == <<102, 111, 111, 46, 108, 111, 103>>             \* "foo.log"
T_keep_log == <<107, 101, 101, 112, 46, 108, 111, 103>>       \* "keep.log"
T_d_foo_log == <<100, 47>> \o T_foo_log                       \* "d/foo.log"
T_abs == <<47, 120>>                                          \* "/x"

IgnoreLines == {T_star_log, T_not_keep, T_comment}
IgnoreFiles(n) == UNION {[1..k -> IgnoreLines] : k \in 0..n}
IgnorePaths == {T_foo_log, T_keep_log, T_d_foo_log, T_a, T_abs}

\* The dicts of scoped rules: the root directory with a file of up to
\* MaxRules lines or without one, the directory d with a file of at most
\* one line or without one.
NoFile == [none |-> TRUE, lines |-> <<>>]
IgnoreFilesOpt(n) == {NoFile} \cup {[none |-> FALSE, lines |-> f] : f \in IgnoreFiles(n)}
ScopedOf(root, d) ==
    [k \in {x \in {<<>>, T_d} : (x = <<>> /\ ~root.none) \/ (x = T_d /\ ~d.none)} |->
        IF k = <<>> THEN gitignore_parse(root.lines) ELSE gitignore_parse(d.lines)]
IgnoreScoped ==
    {ScopedOf(root, d) : root \in IgnoreFilesOpt(MaxRules), d \in IgnoreFilesOpt(1)}
\* The lists of absolute rules: no file, or info/exclude with one line.
IgnoreAbsolute ==
    {<<>>} \cup {<<gitignore_parse(f)>> : f \in IgnoreFiles(1) \cup {<<T_keep_lf>>}}

IgnoreInit ==
    /\ kv = KvIdle
    /\ tr = TrIdle
    /\ last = NoOp
    /\ rr = RrIdle
    /\ ic = IcIdle
    /\ index = NoIndex
    /\ wt = NoFiles
    /\ objects = NoObjects
    /\ refs = FreshRefs
    /\ cm \in {[pc |-> "idle", rules |-> GitIgnore(a, s)] :
                  a \in IgnoreAbsolute, s \in IgnoreScoped}

\* check_ignore(rules, path) on the rules of the repository.
CheckIgnore(path) ==
    /\ cm.pc = "idle"
    /\ cm' = [pc |-> "ignore", rules |-> cm.rules, path |-> path,
              res |-> check_ignore(cm.rules, path)]
    /\ UNCHANGED <<kv, tr, objects, refs, last, rr, index, wt, ic>>

IgnoreNext == \E path \in IgnorePaths : CheckIgnore(path)

SpecIgnore == IgnoreInit /\ [][IgnoreNext]_vars
(***************************************************************************)
(* repo_create, lines 147-199, with GitRepository.__init__ (lines 83-109), *)
(* repo_path, repo_file and repo_dir (lines 113-137).  In this part wt     *)
(* holds the files and the directories below the directory in which the    *)
(* repository is made: path -> [dir, data].                                *)
(***************************************************************************)
T_w == <<119>>  \* "w"
T_dotgit == <<46, 103, 105, 116>>  \* ".git"
T_branch == <<98, 114, 97, 110, 99, 104>>  \* "branch"
T_branches == <<98, 114, 97, 110, 99, 104, 101, 115>>  \* "branches"
T_objects == <<111, 98, 106, 101, 99, 116, 115>>  \* "objects"
T_refs_dir == <<114, 101, 102, 115>>  \* "refs"
T_heads_dir == <<104, 101, 97, 100, 115>>  \* "heads"
T_tags_dir == <<116, 97, 103, 115>>  \* "tags"
T_description == <<100, 101, 115, 99, 114, 105, 112, 116, 105, 111, 110>>  \* "description"
T_config == <<99, 111, 110, 102, 105, 103>>  \* "config"
T_description_text == <<85, 110, 110, 97, 109, 101, 100, 32, 114, 101, 112, 111, 115, 105, 116, 111, 114, 121, 59, 32, 101, 100, 105, 116, 32, 116, 104, 105, 115, 32, 102, 105, 108, 101, 32, 39, 100, 101, 115, 99, 114, 105, 112, 116, 105, 111, 110, 39, 32, 116, 111, 32, 110, 97, 109, 101, 32, 116, 104, 101, 32, 114, 101, 112, 111, 115, 105, 116, 111, 114, 121, 46, 10>>  \* "Unnamed repository; edit this file 'description' to name the repository.\n"
T_core == <<99, 111, 114, 101>>  \* "core"
T_repositoryformatversion == <<114, 101, 112, 111, 115, 105, 116, 111, 114, 121, 102, 111, 114, 109, 97, 116, 118, 101, 114, 115, 105, 111, 110>>  \* "repositoryformatversion"
T_0 == <<48>>  \* "0"
T_filemode == <<102, 105, 108, 101, 109, 111, 100, 101>>  \* "filemode"
T_bare == <<98, 97, 114, 101>>  \* "bare"
T_false == <<102, 97, 108, 115, 101>>  \* "false"

FsDir == [dir |-> TRUE, data |-> <<>>]
FsFile(data) == [dir |-> FALSE, data |-> data]
FsRes(err, fs) == [err |-> err, fs |-> fs]

\* os.path.join of path components
RECURSIVE JoinAll(_)
JoinAll(parts) ==
    IF parts = <<>> THEN <<>>
    ELSE IF Len(parts) = 1 THEN parts[1]
    ELSE PathJoin(parts[1], JoinAll(Tail(parts)))

\* os.path.exists, os.path.isdir; the directory the paths are relative to
\* (the empty path) is there.
os_path_exists(fs, p) == p = <<>> \/ p \in DOMAIN fs
os_path_isdir(fs, p) == p = <<>> \/ (p \in DOMAIN fs /\ fs[p].dir)
\* os.listdir(p) of a directory: is there anything in it
os_listdir(fs, p) == {k \in DOMAIN fs : DirName(k) = p}

FsPut(fs, p, node) == [k \in DOMAIN fs \cup {p} |-> IF k = p THEN node ELSE fs[k]]

\* os.mkdir(p)
os_mkdir(fs, p) ==
    IF os_path_exists(fs, p) THEN FsRes("FileExistsError", fs)
    ELSE IF ~os_path_exists(fs, DirName(p)) THEN FsRes("FileNotFoundError", fs)
    ELSE IF ~os_path_isdir(fs, DirName(p)) THEN FsRes("NotADirectoryError", fs)
    ELSE FsRes("", FsPut(fs, p, FsDir))

\* os.makedirs(p): the missing ancestors are made first.
RECURSIVE os_makedirs(_, _)
os_makedirs_leaf(p, made) ==
    IF made.err # "" THEN made ELSE os_mkdir(made.fs, p)

os_makedirs(fs, p) ==
    IF DirName(p) # <<>> /\ ~os_path_exists(fs, DirName(p))
    THEN os_makedirs_leaf(p, os_makedirs(fs, DirName(p)))
    ELSE os_mkdir(fs, p)

\* with open(p, "w") as f: f.write(data)
open_w(fs, p, data) ==
    IF ~os_path_exists(fs, DirName(p)) THEN FsRes("FileNotFoundError", fs)
    ELSE IF ~os_path_isdir(fs, DirName(p)) THEN FsRes("NotADirectoryError", fs)
    ELSE IF os_path_isdir(fs, p) THEN FsRes("IsADirectoryError", fs)
    ELSE FsRes("", FsPut(fs, p, FsFile(data)))

\* repo_path(repo, *path)
repo_path(gitdir, parts) == JoinAll(<<gitdir>> \o parts)

\* repo_dir(repo, *path, mkdir): [err, val: the path or None, fs].
DirRes(err, val, fs) == [err |-> err, val |-> val, fs |-> fs]
repo_dir_made(p, made) ==
    IF made.err # "" THEN DirRes(made.err, NoneStr, made.fs)
    ELSE DirRes("", Str(p), made.fs)

repo_dir(fs, gitdir, parts, mkdir) ==
    IF os_path_exists(fs, repo_path(gitdir, parts))
    THEN IF os_path_isdir(fs, repo_path(gitdir, parts))
         THEN DirRes("", Str(repo_path(gitdir, parts)), fs)
         ELSE DirRes("Exception", NoneStr, fs)
    ELSE IF mkdir
    THEN repo_dir_made(repo_path(gitdir, parts),
                       os_makedirs(fs, repo_path(gitdir, parts)))
    ELSE DirRes("", NoneStr, fs)

\* repo_file(repo, *path, mkdir)
repo_file_in(gitdir, parts, dir) ==
    IF dir.err # "" \/ dir.val.none THEN dir
    ELSE DirRes("", Str(repo_path(gitdir, parts)), dir.fs)

repo_file(fs, gitdir, parts, mkdir) ==
    repo_file_in(gitdir, parts,
                 repo_dir(fs, gitdir, SubSeq(parts, 1, Len(parts) - 1), mkdir))

\* GitRepository(path, force=True): the constructor reads the config file
\* if there is one and writes nothing; it raises when .git is not a
\* directory (repo_dir, line 131).
GitRepository_force(fs, path) ==
    repo_file(fs, PathJoin(path, T_dotgit), <<T_config>>, FALSE).err

\* configparser: a config is a sequence of <<section, <<key, value>>...>>;
\* config.write(f) writes each section as "[name]", its keys as
\* "key = value", and an empty line.
RECURSIVE config_write_keys(_)
config_write_keys(kvs) ==
    IF kvs = <<>> THEN <<>>
    ELSE Head(kvs)[1] \o <<32, 61, 32>> \o Head(kvs)[2] \o <<LF>>
         \o config_write_keys(Tail(kvs))

RECURSIVE config_write(_)
config_write(config) ==
    IF config = <<>> THEN <<>>
    ELSE <<91>> \o Head(config)[1] \o <<93, LF>>
         \o config_write_keys(Head(config)[2]) \o <<LF>>
         \o config_write(Tail(config))

\* repo_default_config(), lines 202-210
repo_default_config ==
    <<<<T_core, <<<<T_repositoryformatversion, T_0>>,
                  <<T_filemode, T_false>>,
                  <<T_bare, T_false>>>>>>>>

\* Lines 162-165: the directories, made in turn; the first failure ends it.
RECURSIVE repo_create_dirs(_, _, _)
repo_create_dirs_next(gitdir, dirs, made) ==
    IF made.err # "" THEN FsRes(made.err, made.fs)
    ELSE repo_create_dirs(made.fs, gitdir, Tail(dirs))

repo_create_dirs(fs, gitdir, dirs) ==
    IF dirs = <<>> THEN FsRes("", fs)
    ELSE repo_create_dirs_next(gitdir, dirs,
             repo_dir(fs, gitdir, Head(dirs), TRUE))

\* Lines 168-197: the files, written in turn: <<name, text>>.
RECURSIVE repo_create_files(_, _, _)
repo_create_files_written(gitdir, files, written) ==
    IF written.err # "" THEN written
    ELSE repo_create_files(written.fs, gitdir, Tail(files))

repo_create_files_at(gitdir, files, file) ==
    IF file.err # "" THEN FsRes(file.err, file.fs)
    ELSE IF file.val.none THEN FsRes("TypeError", file.fs)    \* open(None)
    ELSE repo_create_files_written(gitdir, files,
             open_w(file.fs, file.val.s, Head(files)[2]))

repo_create_files(fs, gitdir, files) ==
    IF files = <<>> THEN FsRes("", fs)
    ELSE repo_create_files_at(gitdir, files,
             repo_file(fs, gitdir, <<Head(files)[1]>>, FALSE))

\* Lines 162-197, the worktree being there.
repo_create_dirs_made(gitdir, made) ==
    IF made.err # "" THEN made
    ELSE repo_create_files(made.fs, gitdir,
             <<<<T_description, T_description_text>>,
               <<T_HEAD, T_HEAD_INIT>>,
               <<T_config, config_write(repo_default_config)>>>>)

repo_create_in(gitdir, worktree) ==
    IF worktree.err # "" THEN worktree
    ELSE repo_create_dirs_made(gitdir,
             repo_create_dirs(worktree.fs, gitdir,
                 <<<<T_branch>>, <<T_objects>>, <<T_refs_dir, T_tags_dir>>,
                   <<T_refs_dir, T_heads_dir>>>>))

\* Lines 153-159
repo_create_checked(fs, path) ==
    IF os_path_exists(fs, path)
    THEN IF ~os_path_isdir(fs, path) THEN FsRes("Exception", fs)
         ELSE IF /\ os_path_exists(fs, PathJoin(path, T_dotgit))
                 /\ os_listdir(fs, PathJoin(path, T_dotgit)) # {}
         THEN FsRes("Exception", fs)
         ELSE FsRes("", fs)
    ELSE os_makedirs(fs, path)

\* repo_create(path): [err, fs].
repo_create(fs, path) ==
    IF GitRepository_force(fs, path) # ""
    THEN FsRes(GitRepository_force(fs, path), fs)
    ELSE repo_create_in(PathJoin(path, T_dotgit), repo_create_checked(fs, path))

(***************************************************************************)
(* init as a state machine: the place in which the repository is made,     *)
(* and repo_create run on it.                                              *)
(***************************************************************************)
\* What .git may hold beforehand.
GitItems ==
    {[path |-> <<T_HEAD>>, node |-> FsFile(T_x)],
     [path |-> <<T_config>>, node |-> FsFile(<<>>)],
     [path |-> <<T_description>>, node |-> FsFile(<<>>)],
     [path |-> <<T_objects>>, node |-> FsDir],
     [path |-> <<T_branches>>, node |-> FsDir],
     [path |-> <<T_refs_dir>>, node |-> FsDir]}

\* The directory w with the files `files` of the worktree and a .git
\* holding `items`.
FsOf(files, git, items) ==
    [k \in {T_w} \cup {PathJoin(T_w, f) : f \in files}
           \cup (IF git = "none" THEN {} ELSE {PathJoin(T_w, T_dotgit)})
           \cup {JoinAll(<<T_w, T_dotgit>> \o i.path) : i \in items} |->
        IF k = T_w THEN FsDir
        ELSE IF k = PathJoin(T_w, T_dotgit)
        THEN (IF git = "file" THEN FsFile(T_x) ELSE FsDir)
        ELSE IF \E i \in items : k = JoinAll(<<T_w, T_dotgit>> \o i.path)
        THEN (CHOOSE i \in items : k = JoinAll(<<T_w, T_dotgit>> \o i.path)).node
        ELSE FsFile(<<>>)]

CreatePlaces ==
    {NoFiles, [k \in {T_w} |-> FsFile(T_x)]}
    \cup {FsOf(files, git, {}) : files \in SUBSET {T_a}, git \in {"none", "file"}}
    \cup {FsOf(files, "dir", items) : files \in SUBSET {T_a}, items \in SUBSET GitItems}

CreateInit ==
    /\ kv = KvIdle
    /\ tr = TrIdle
    /\ last = NoOp
    /\ rr = RrIdle
    /\ ic = IcIdle
    /\ index = NoIndex
    /\ wt \in CreatePlaces
    /\ objects = NoObjects
    /\ refs = FreshRefs
    /\ cm = CmIdle

\* cmd_init: repo_create(args.path)
CmdInit(path) ==
    /\ cm.pc = "idle"
    /\ cm' = [pc |-> "init", path |-> path, err |-> repo_create(wt, path).err]
    /\ wt' = repo_create(wt, path).fs
    /\ UNCHANGED <<kv, tr, objects, refs, last, rr, index, ic>>

CreateNext == CmdInit(T_w)

SpecCreate == CreateInit /\ [][CreateNext]_vars
(***************************************************************************)
(* object_write (lines 367-383) in steps, for a process that can be        *)
(* stopped: the file is opened at its final path (line 380), which makes   *)
(* it empty; the compressed bytes reach it when the write is flushed and   *)
(* the file closed (line 382).  A process killed in between leaves the     *)
(* file with the bytes written so far; a write that fails part-way (a full *)
(* disk) leaves them too and raises OSError.                               *)
(***************************************************************************)
\* The objects the writers write.
CrashBlobs == {GitBlob(<<>>), GitBlob(<<97>>), GitBlob(<<98>>)}

\* Line 371: the header and the data.
object_write_header(obj) ==
    obj.fmt \o <<SP>> \o Dec(Len(obj_serialize(obj).val)) \o <<NUL>>
    \o obj_serialize(obj).val

StoreFile(store, sha, data) ==
    [k \in DOMAIN store \cup {sha} |->
        IF k = sha
        THEN [data |-> data,
              writes |-> IF sha \in DOMAIN store THEN store[sha].writes ELSE 1]
        ELSE store[k]]

Writer(pc, sha, data, err) == [pc |-> pc, sha |-> sha, data |-> data, err |-> err]

CrashInit ==
    /\ kv = KvIdle
    /\ tr = TrIdle
    /\ last = NoOp
    /\ rr = RrIdle
    /\ ic = IcIdle
    /\ index = NoIndex
    /\ wt = NoFiles
    /\ objects = NoObjects
    /\ refs = FreshRefs
    /\ cm = CmIdle

\* Lines 369-380: the path is there and object_write returns, or the file
\* is opened for writing.
ObjectWriteOpen(obj) ==
    /\ cm.pc = "idle"
    /\ Cardinality(DOMAIN objects \cup {sha1_hexdigest(object_write_header(obj))})
          <= MaxObjects
    /\ IF sha1_hexdigest(object_write_header(obj)) \in DOMAIN objects
       THEN /\ cm' = Writer("returned", sha1_hexdigest(object_write_header(obj)),
                            <<>>, "")
            /\ UNCHANGED objects
       ELSE /\ cm' = Writer("opened", sha1_hexdigest(object_write_header(obj)),
                            zlib_compress(object_write_header(obj)), "")
            /\ objects' = StoreFile(objects,
                              sha1_hexdigest(object_write_header(obj)), <<>>)
    /\ UNCHANGED <<kv, tr, refs, last, rr, index, wt, ic>>

\* Line 382 and the end of the with block: all the bytes are in the file.
ObjectWriteClose ==
    /\ cm.pc = "opened"
    /\ objects' = StoreFile(objects, cm.sha, cm.data)
    /\ cm' = Writer("returned", cm.sha, <<>>, "")
    /\ UNCHANGED <<kv, tr, refs, last, rr, index, wt, ic>>

\* Line 382 failing after n bytes: the file keeps them, OSError is raised.
ObjectWriteFails(n) ==
    /\ cm.pc = "opened"
    /\ n < Len(cm.data)
    /\ objects' = StoreFile(objects, cm.sha, SubSeq(cm.data, 1, n))
    /\ cm' = Writer("returned", cm.sha, <<>>, "OSError")
    /\ UNCHANGED <<kv, tr, refs, last, rr, index, wt, ic>>

\* The process is killed after n bytes reached the file.
ObjectWriteKilled(n) ==
    /\ cm.pc = "opened"
    /\ n < Len(cm.data)
    /\ objects' = StoreFile(objects, cm.sha, SubSeq(cm.data, 1, n))
    /\ cm' = CmIdle
    /\ UNCHANGED <<kv, tr, refs, last, rr, index, wt, ic>>

\* object_write has returned or raised; the next call can begin.
ObjectWriteReturn ==
    /\ cm.pc = "returned"
    /\ cm' = CmIdle
    /\ UNCHANGED <<kv, tr, objects, refs, last, rr, index, wt, ic>>

\* The lengths at which a write is cut.
Cuts == 0..(Len(zlib_compress(object_write_header(GitBlob(<<97>>)))) - 1)

CrashNext ==
    \/ \E obj \in CrashBlobs : ObjectWriteOpen(obj)
    \/ ObjectWriteClose
    \/ \E n \in Cuts : ObjectWriteFails(n)
    \/ \E n \in Cuts : ObjectWriteKilled(n)
    \/ ObjectWriteReturn

SpecCrash == CrashInit /\ [][CrashNext]_vars

(***************************************************************************)
(* kvlm_parse on arbitrary payloads: object_read hands the bytes of a      *)
(* commit or tag object to kvlm_parse unchecked (lines 335 and 574), so    *)
(* the parser sees every byte string, well formed or not.                  *)
(***************************************************************************)
MaxRaw == 4
RawBytes == {SP, LF, 107}                     \* " ", "\n", "k"

RawInputs == UNION {[1..n -> RawBytes] : n \in 0..MaxRaw}

KvRawInit ==
    /\ kv \in {[pc |-> "input", raw |-> r, out |-> Raise("")] : r \in RawInputs}
    /\ tr = TrIdle
    /\ RepoIdle

SpecKvlmRaw == KvRawInit /\ [][KvNext]_vars

(***************************************************************************)
(* tree_from_index step by step: the filing and the sort (lines 1751-1779),*)
(* one turn of the loop of lines 1782-1814 for each directory, the return  *)
(* of line 1816.  cm.written lists the calls of object_write so far: the   *)
(* directory, the leaves of the tree handed over and the OID returned.     *)
(***************************************************************************)
MaxBuildEntries == 3

T_def == <<100, 47, 101, 47, 102>>            \* "d/e/f"
T_xc == <<120, 47, 99>>                       \* "x/c"

BuildNames == {T_a, T_dc, T_def, T_xc}
BuildEntrySet == {StatusEntry(n, s) : n \in BuildNames, s \in {BlobA.val, BlobB.val}}
\* The entry lists of an index object, in any order (add appends), every
\* name at most once.
BuildEntries ==
    {es \in UNION {[1..n -> BuildEntrySet] : n \in 0..MaxBuildEntries} :
        \A i, j \in 1..Len(es) : es[i].name = es[j].name => i = j}

BuildInit ==
    /\ kv = KvIdle
    /\ tr = TrIdle
    /\ last = NoOp
    /\ rr = RrIdle
    /\ ic = IcIdle
    /\ index = NoIndex
    /\ wt = NoFiles
    /\ refs = FreshRefs
    /\ objects \in {NoObjects, BlobB.store}
    /\ cm = CmIdle

\* Lines 1751-1779: contents filled, its keys sorted, sha = None.
TreeFromIndexStart(entries) ==
    /\ cm.pc = "idle"
    /\ cm' = [pc |-> "trees", entries |-> entries, store0 |-> objects,
              contents |-> tree_from_index_contents(entries,
                               <<[key |-> <<>>, items |-> <<>>]>>),
              paths |-> tree_from_index_sorted(
                            tree_from_index_contents(entries,
                                <<[key |-> <<>>, items |-> <<>>]>>), <<>>),
              sha |-> NoneStr, written |-> <<>>]
    /\ UNCHANGED <<kv, tr, objects, refs, last, rr, index, wt, ic>>

\* cm after the turn of the loop for the first of cm.paths, wr the outcome
\* of its object_write (lines 1806-1814).
TreeFromIndexTurn(wr) ==
    IF wr.err # ""
    THEN [cm EXCEPT !.pc = "raised"]
    ELSE [cm EXCEPT
            !.paths = Tail(cm.paths),
            !.contents = ContentsAppend(cm.contents, DirName(Head(cm.paths)),
                             GitTreeLeaf(MODE_DIR, BaseName(Head(cm.paths)),
                                         wr.val)),
            !.sha = Str(wr.val),
            !.written = Append(cm.written,
                            [path |-> Head(cm.paths),
                             items |-> ContentsGet(cm.contents, Head(cm.paths)),
                             sha |-> wr.val])]

\* Lines 1782-1814, one turn: the tree of the next directory is written and
\* its leaf appended to the list of its parent.
TreeFromIndexWrite ==
    /\ cm.pc = "trees"
    /\ cm.paths # <<>>
    /\ objects' = object_write(GitTree(ContentsGet(cm.contents, Head(cm.paths))),
                               TRUE, objects).store
    /\ cm' = TreeFromIndexTurn(
                 object_write(GitTree(ContentsGet(cm.contents, Head(cm.paths))),
                              TRUE, objects))
    /\ UNCHANGED <<kv, tr, refs, last, rr, index, wt, ic>>

\* Line 1816: return sha.
TreeFromIndexReturn ==
    /\ cm.pc = "trees"
    /\ cm.paths = <<>>
    /\ cm' = [cm EXCEPT !.pc = "returned"]
    /\ UNCHANGED <<kv, tr, objects, refs, last, rr, index, wt, ic>>

BuildNext ==
    \/ \E entries \in BuildEntries : TreeFromIndexStart(entries)
    \/ TreeFromIndexWrite
    \/ TreeFromIndexReturn

SpecTreeBuild == BuildInit /\ [][BuildNext]_vars

(***************************************************************************)
(* The timezone field of commit_create, lines 1826-1829, for a process     *)
(* whose local UTC offset is `offset` seconds.                             *)
(***************************************************************************)
\* "{:02}".format(n): the sign of a negative n, then its decimal digits
\* padded with zeros, two characters in all at least.
Format02(n) ==
    IF n < 0
    THEN <<45>> \o Zeros(Max(1 - Len(Dec(0 - n)), 0), 48) \o Dec(0 - n)
    ELSE Zeros(Max(2 - Len(Dec(n)), 0), 48) \o Dec(n)

\* Lines 1827-1829: // and % round towards minus infinity.
commit_create_tz(offset) ==
    (IF offset > 0 THEN <<43>> ELSE <<45>>)
        \o Format02(offset \div 3600) \o Format02((offset % 3600) \div 60)

\* commit_create in a process of UTC offset `offset`, author and message
\* given: the outcome of object_write.
commit_create_at(store, tree, parent, author, timestamp, message, offset) ==
    object_write(
        GitCommit(commit_create_kvlm(commit_create_head(tree, parent),
            author \o <<SP>> \o timestamp \o <<SP>> \o commit_create_tz(offset),
            message)),
        TRUE, store)

\* The local UTC offsets, in seconds: the whole minutes from -12:00 to
\* +14:00.
TzOffsets == {60 * m : m \in (0 - 12 * 60)..(14 * 60)}

TzInit ==
    /\ kv = KvIdle
    /\ tr = TrIdle
    /\ last = NoOp
    /\ rr = RrIdle
    /\ ic = IcIdle
    /\ index = NoIndex
    /\ wt = NoFiles
    /\ refs = FreshRefs
    /\ objects = FirstTree.store
    /\ cm = CmIdle

\* commit_create(repo, tree, None, author, datetime.now(), message) where the
\* local offset is `offset`: the commit is written; cm.author is its author
\* line as stored.
CommitCreateAt(offset) ==
    /\ cm.pc = "idle"
    /\ objects' = commit_create_at(objects, FirstTree.val.s, NoneStr, T_user,
                                   T_now, B_m, offset).store
    /\ cm' = [pc |-> "committed", offset |-> offset,
              sha |-> commit_create_at(objects, FirstTree.val.s, NoneStr,
                                       T_user, T_now, B_m, offset).val]
    /\ UNCHANGED <<kv, tr, refs, last, rr, index, wt, ic>>

TzNext == \E offset \in TzOffsets : CommitCreateAt(offset)

SpecTz == TzInit /\ [][TzNext]_vars
(***************************************************************************)
(* The properties.                                                         *)
(***************************************************************************)
Range(f) == {f[i] : i \in DOMAIN f}

\* C1: after object_write(o) has stored o, of any of the four kinds,
\* object_read of the returned OID yields an object of the same kind whose
\* serialization is byte for byte that of o.
C1_ReadBack ==
    (last.op = "object_write" /\ last.res.err = "") =>
        LET r == object_read(objects, last.res.val.s)
        IN  /\ r.err = ""
            /\ ~r.val.none
            /\ r.val.obj.fmt = last.obj.fmt
            /\ obj_serialize(r.val.obj) = obj_serialize(last.obj)

\* C2: no step of any operation changes or removes a file of the objects
\* directory; object_write on an existing path writes nothing, and the
\* directory only gains files.
C2_Immutable ==
    [][\A k \in DOMAIN objects : k \in DOMAIN objects' /\ objects'[k] = objects[k]]_vars

\* An object_write whose target path existed has returned.
C2_Witness == last.op = "object_write" /\ last.res.err = "" /\ last.res.existed

\* C3: for every well-formed KVLM input b, serializing the result of
\* parsing b as the commit/tag deserializer does gives b back, byte for byte.
C3_RoundTrip ==
    kv.pc = "roundtrip" => (kv.out.err = "" /\ kv.out.val = kv.raw)

\* C4: for every tree payload t of records `mode SP name NUL sha20` in
\* canonical order, serializing the parsed t gives t back, byte for byte.
C4_RoundTrip ==
    (tr.pc = "serialized" /\ tr.src = "bytes" /\ tr.canon)
        => (tr.out.err = "" /\ tr.out.val = tr.raw)

\* C5: tree_serialize leaves the leaves ordered by the entry name, with `/`
\* appended if and only if the leaf's mode denotes a directory.
C5_SortKey ==
    tr.pc = "serialized" =>
        \A i \in 1..(Len(tr.items) - 1) :
            StrLE(GitTreeKey(tr.items[i].mode, tr.items[i].path),
                  GitTreeKey(tr.items[i + 1].mode, tr.items[i + 1].path))

\* A direct reference: 40 hexadecimal digits and LF.
IsDirect(text) ==
    /\ Len(text) = ShaHex + 1
    /\ text[ShaHex + 1] = LF
    /\ \A i \in 1..ShaHex : text[i] \in HexDigits

\* The chains of distinct reference paths.
Chains ==
    {c \in UNION {[1..n -> RefPaths] : n \in 1..Cardinality(RefPaths)} :
        \A i, j \in 1..Len(c) : i # j => c[i] # c[j]}

\* c is a chain of the reference store from `start`: every file but the
\* last is an indirect reference to the next.
ChainFrom(c, start) ==
    /\ c[1] = start
    /\ \A i \in 1..(Len(c) - 1) :
          c[i] \in DOMAIN refs /\ refs[c[i]] = T_ref \o c[i + 1] \o <<LF>>

\* C6: when an acyclic chain of reference files from the resolved reference
\* ends in a direct reference, ref_resolve returns exactly its 40-hex OID;
\* when it ends in a missing file, ref_resolve returns None.
C6_Resolve ==
    rr.pc = "done" =>
        \A c \in Chains :
            ChainFrom(c, rr.start) =>
                LET end == c[Len(c)]
                IN  /\ (end \in DOMAIN refs /\ IsDirect(refs[end]))
                          => rr.res = Ok(Str(SubSeq(refs[end], 1, ShaHex)))
                    /\ end \notin DOMAIN refs => rr.res = Ok(NoneStr)

\* HEAD has been resolved through two indirect references to an OID.
C6_Witness ==
    /\ rr.pc = "done"
    /\ rr.start = T_HEAD
    /\ rr.depth = 2
    /\ rr.res.err = ""
    /\ ~rr.res.val.none
    /\ IsDirect(rr.res.val.s \o <<LF>>)

\* C7: ref_resolve stops on a cycle of indirect references with an error
\* of its own; it never recurses until the interpreter's recursion limit
\* ends it.
C7_CycleStops ==
    rr.pc = "done" => rr.res.err # "RecursionError"

\* C8: object_find fails with "No such reference" when object_resolve has
\* no candidate for the name, fails with "Ambiguous reference" listing
\* every candidate when it has more than one, and returns an OID only
\* when it has exactly one.
C8_Candidates ==
    last.op = "object_find" =>
        \A ls \in Listings(objects) :
            LET c == object_resolve(objects, refs, last.name, ls)
            IN  c.err = "" =>
                  /\ (c.isnone \/ c.cands = <<>>)
                        => last.res.err = "No such reference"
                  /\ Len(c.cands) > 1
                        => /\ last.res.err = "Ambiguous reference"
                           /\ Range(last.res.cands) = Range(c.cands)
                           /\ Len(last.res.cands) = Len(c.cands)
                  /\ (last.res.err = "" /\ ~last.res.val.none)
                        => /\ Len(c.cands) = 1
                           /\ last.fmt = <<>> => last.res.val = c.cands[1]

\* A 4-digit prefix shared by two stored objects has been found ambiguous.
C8_Witness ==
    /\ last.op = "object_find"
    /\ Len(last.name) = 4
    /\ last.res.err = "Ambiguous reference"
    /\ Len(last.res.cands) = 2
    /\ last.res.cands[1] # last.res.cands[2]
    /\ \A i \in 1..2 : last.res.cands[i].s \in DOMAIN objects

\* C9: whenever refs/tags/<name> resolves to an OID, that OID is among the
\* candidates of object_resolve(name), and likewise for refs/heads/<name>.
C9_TagAndBranch ==
    \A name \in ShortNames(objects), ls \in Listings(objects) :
        LET c == object_resolve(objects, refs, name, ls)
            t == ref_resolve(refs, T_refs \o T_tags \o name, 0)
            b == ref_resolve(refs, T_refs \o T_heads \o name, 0)
        IN  /\ (t.err = "" /\ Truthy(t.val)) => t.val \in Range(c.cands)
            /\ (b.err = "" /\ Truthy(b.val)) => b.val \in Range(c.cands)

\* C10: object_find with a kind and exactly one candidate, the OID of a
\* stored object, ends without an error, and returns None or the OID of a
\* stored object of exactly that kind.
C10_Follow ==
    (/\ last.op = "object_find"
     /\ last.fmt # <<>>
     /\ Len(last.res.cands) = 1
     /\ ~last.res.cands[1].none
     /\ last.res.cands[1].s \in DOMAIN objects) =>
        /\ last.res.err = ""
        /\ \/ last.res.val.none
           \/ /\ last.res.val.s \in DOMAIN objects
              /\ StoredFmt(objects, last.res.val.s) = last.fmt

\* C11: for a well-formed version 2 index file f (entries sorted, no
\* extension, names of any length), index_read accepts f and index_write of
\* the index it returned leaves a file equal to f byte for byte.
C11_RoundTrip ==
    /\ ic.pc = "read" => ic.res.err = ""
    /\ ic.pc = "written" => (ic.res.err = "" /\ index = Str(ic.src))

(***************************************************************************)
(* The staging area.                                                       *)
(***************************************************************************)
\* The entries an index file holds, as Git reads them: none when the file
\* is absent or cut short.
OnDisk(file) ==
    IF file.none \/ Len(file.s) < 12 THEN <<>>
    ELSE index_read_entries(SliceFrom(file.s, 12), 0,
                            int_from_bytes(Slice(file.s, 8, 12)), <<>>).val

\* The (name, OID) inventory of a list of entries.
Inventory(entries) ==
    {<<entries[i].name, entries[i].sha>> : i \in 1..Len(entries)}

DistinctNames(entries) ==
    \A i, j \in 1..Len(entries) : i # j => entries[i].name # entries[j].name

AscendingNames(entries) ==
    \A i \in 1..(Len(entries) - 1) : StrLE(entries[i].name, entries[i + 1].name)

\* C12: after any sequence of add and rm, an add of several paths
\* included, no two entries of the index share a name: neither in the
\* index file nor in the index the last command built.
C12_UniqueNames ==
    /\ DistinctNames(OnDisk(index))
    /\ cm.op \in {"add", "rm"} => DistinctNames(cm.entries)

\* C13: the entries of the index are in ascending order of name whatever
\* the order of the adds: in the index file and in the index the last
\* command built for writing.
C13_Ascending ==
    /\ AscendingNames(OnDisk(index))
    /\ cm.op \in {"add", "rm"} => AscendingNames(cm.entries)

\* C14: add of a file that the index already holds, unchanged since it
\* was added, succeeds and leaves the index with the same (name, OID)
\* inventory, one entry for the file.
C14_AddTwice ==
    [][\A p \in {T_a, T_b} :
          ( /\ cm.op = "add" /\ cm.err = ""
            /\ Len(OnDisk(index)) = 1
            /\ Inventory(OnDisk(index)) =
                   {<<p, object_hash(wt[p], B_blob, FALSE, objects).val>>}
            /\ CmdAdd(<<p>>) )
          => ( /\ cm'.err = ""
               /\ Len(OnDisk(index')) = 1
               /\ Inventory(OnDisk(index')) = Inventory(OnDisk(index)) )]_vars

(***************************************************************************)
(* The commit pipeline.                                                    *)
(***************************************************************************)
\* The payload of a stored object.
Payload(store, oid) ==
    SliceFrom(zlib_decompress(store[oid].data).val,
              Find(zlib_decompress(store[oid].data).val, NUL, 0) + 1)

\* The parent header of a stored commit, none when it has none: the line
\* after the 46 bytes of `tree`, a space, the OID of the tree and LF.
ParentOf(store, oid) ==
    IF Slice(Payload(store, oid), 46, 53) = B_parent \o <<SP>>
    THEN Str(Slice(Payload(store, oid), 53, 53 + ShaHex))
    ELSE NoneStr

\* The branch file HEAD names, and the OID a branch file holds (none when
\* the file is absent: the branch is unborn).
OnBranch(rs) == StartsWith(rs[T_HEAD], T_ref \o T_refs_heads)
BranchOf(rs) == Slice(rs[T_HEAD], 5, -1)
Tip(rs, path) ==
    IF path \in DOMAIN rs THEN Str(Slice(rs[path], 0, -1)) ELSE NoneStr

\* The number of commits on the parent chain from tip.
RECURSIVE ChainLen(_, _, _)
ChainLen(store, tip, fuel) ==
    IF tip.none \/ tip.s \notin DOMAIN store \/ fuel = 0 THEN 0
    ELSE 1 + ChainLen(store, ParentOf(store, tip.s), fuel - 1)

\* C15: with HEAD on a branch, the commit written has for parent the OID
\* the branch held (none iff the branch was unborn); the ref update then
\* leaves that OID followed by LF in the branch file and leaves HEAD as it
\* was, and the parent chain from the branch is one commit longer.
C15_BranchCommit ==
    [][(cm.pc = "commit" /\ OnBranch(refs)) =>
          /\ ParentOf(objects, cm.commit) = Tip(refs, BranchOf(refs))
          /\ BranchOf(refs) \in DOMAIN refs'
          /\ refs'[BranchOf(refs)] = cm.commit \o <<LF>>
          /\ refs'[T_HEAD] = refs[T_HEAD]
          /\ ChainLen(objects, Tip(refs', BranchOf(refs)), MaxCommits + 1)
                = ChainLen(objects, Tip(refs, BranchOf(refs)), MaxCommits + 1) + 1
      ]_vars

\* C16: with HEAD detached, the ref update of a commit leaves the new
\* commit's OID followed by LF in HEAD, and ref_resolve(HEAD) returns it.
C16_DetachedCommit ==
    [][(cm.pc = "commit" /\ ~StartsWith(refs[T_HEAD], T_ref)) =>
          /\ refs'[T_HEAD] = cm.commit \o <<LF>>
          /\ ref_resolve(refs', T_HEAD, 0) = Ok(Str(cm.commit))
      ]_vars

\* C17: the root tree of a commit, flattened, is the map from entry name
\* to entry OID of the index; an empty root tree comes of an empty index
\* only.
C17_TreeOfIndex ==
    (cm.pc \in {"tree", "commit"}) =>
        /\ tree_to_dict(objects, refs, cm.tree, <<>>, 0).err = ""
        /\ LET flat == tree_to_dict(objects, refs, cm.tree, <<>>, 0).val
           IN  {<<k, flat[k]>> : k \in DOMAIN flat} = Inventory(OnDisk(index))
        /\ Payload(objects, cm.tree) = <<>> => OnDisk(index) = <<>>

\* The OID a ref file under refs/heads names.
BranchRefs(rs) == {k \in DOMAIN rs : StartsWith(k, T_refs_heads)}

\* C18: within a commit the trees are in the store before the commit
\* object is written, the commit object before the ref is updated, and at
\* no time, a commit that failed part-way included, does a branch ref name
\* a commit that the store does not hold.
C18_Order ==
    /\ [](\A k \in BranchRefs(refs) : Slice(refs[k], 0, -1) \in Commits(objects))
    /\ [][/\ cm'.pc = "commit" => cm'.tree \in DOMAIN objects
          /\ cm'.commit \in DOMAIN objects' \ DOMAIN objects
                => cm'.tree \in DOMAIN objects
          /\ refs' # refs => (cm.pc = "commit" /\ cm.commit \in Commits(objects))
       ]_vars

\* Two commits have run through on the branch master.
C18_Witness ==
    /\ cm.op = "commit" /\ cm.pc = "idle" /\ cm.err = ""
    /\ OnBranch(refs)
    /\ ChainLen(objects, Tip(refs, T_refs_heads \o T_master), MaxCommits + 1) >= 2

\* The names the comparison of an index object with the files `flat` of
\* the HEAD commit is to report, by kind.
Added(entries, flat) ==
    {entries[i].name : i \in {j \in 1..Len(entries) : entries[j].name \notin DOMAIN flat}}
Modified(entries, flat) ==
    {entries[i].name : i \in {j \in 1..Len(entries) :
        /\ entries[j].name \in DOMAIN flat
        /\ flat[entries[j].name] # entries[j].sha}}
Deleted(entries, flat) ==
    {k \in DOMAIN flat : \A i \in 1..Len(entries) : entries[i].name # k}
Reported(out, kind) == {out[i][2] : i \in {j \in 1..Len(out) : out[j][1] = kind}}

\* C19: the comparison of HEAD with the index reports an entry added iff
\* its name is not a file of the HEAD commit, modified iff it is one with
\* another OID, not at all iff the OIDs match, and a file of the HEAD
\* commit deleted iff no entry has its name; no path is reported twice.
C19_Classification ==
    \A r \in StatusRepos :
        (cm.pc = "status" /\ r.born /\ objects = r.objects /\ refs = r.refs) =>
            /\ cm.res.err = ""
            /\ Reported(cm.res.out, "added") = Added(cm.entries, r.flat)
            /\ Reported(cm.res.out, "modified") = Modified(cm.entries, r.flat)
            /\ cm.res.deleted = Deleted(cm.entries, r.flat)
            /\ Len(cm.res.out)
                 = Cardinality(Added(cm.entries, r.flat))
                   + Cardinality(Modified(cm.entries, r.flat))

\* The glob matching check_ignore1 states: `*` stands for any text, `?`
\* for one character, every other character for itself.
RECURSIVE Glob(_, _, _, _)
Glob(p, i, s, j) ==
    IF i > Len(p) THEN j > Len(s)
    ELSE IF p[i] = 42
    THEN Glob(p, i + 1, s, j) \/ (j <= Len(s) /\ Glob(p, i, s, j + 1))
    ELSE /\ j <= Len(s)
         /\ p[i] = 63 \/ p[i] = s[j]
         /\ Glob(p, i + 1, s, j + 1)

Matching(rules, path) == {i \in 1..Len(rules) : Glob(rules[i][1], 1, path, 1)}
\* The polarity of the last matching rule of a ruleset that has one.
LastMatch(rules, path) ==
    rules[CHOOSE i \in Matching(rules, path) :
              \A j \in Matching(rules, path) : j <= i][2]

\* The ancestor directories of path, nearest first.
RECURSIVE Ancestors(_)
Ancestors(dir) == IF dir = <<>> THEN <<dir>> ELSE <<dir>> \o Ancestors(DirName(dir))

Deciding(scoped, path) ==
    {i \in 1..Len(Ancestors(DirName(path))) :
        /\ Ancestors(DirName(path))[i] \in DOMAIN scoped
        /\ Matching(scoped[Ancestors(DirName(path))[i]], path) # {}}

\* What check_ignore is to return for a relative path.
Ignored(rules, path) ==
    IF Deciding(rules.scoped, path) # {}
    THEN LastMatch(rules.scoped[Ancestors(DirName(path))[
             CHOOSE i \in Deciding(rules.scoped, path) :
                 \A j \in Deciding(rules.scoped, path) : i <= j]], path)
    ELSE IF \E k \in 1..Len(rules.absolute) : Matching(rules.absolute[k], path) # {}
    THEN LastMatch(rules.absolute[
             CHOOSE k \in 1..Len(rules.absolute) :
                 /\ Matching(rules.absolute[k], path) # {}
                 /\ \A l \in 1..(k - 1) : Matching(rules.absolute[l], path) = {}],
             path)
    ELSE FALSE

\* C20: check_ignore on a relative path returns the polarity of the
\* deciding rule: the last matching rule of the scoped ruleset of the
\* nearest ancestor directory that has a matching rule, else the last
\* matching rule of an absolute ruleset, else not ignored; a negated rule
\* gives not ignored.
C20_Precedence ==
    (cm.pc = "ignore" /\ ~StartsWith(cm.path, <<47>>)) =>
        /\ cm.res.err = ""
        /\ ~cm.res.val.none
        /\ cm.res.val.b = Ignored(cm.rules, cm.path)

\* The lines of a text, each without its LF.
RECURSIVE TextLines(_)
TextLines(text) ==
    IF text = <<>> THEN <<>>
    ELSE IF Find(text, LF, 0) < 0 THEN <<text>>
    ELSE <<Slice(text, 0, Find(text, LF, 0))>>
         \o TextLines(SliceFrom(text, Find(text, LF, 0) + 1))

\* The config text has the key with the value in the section: the
\* section header is a line, and `key = value` is a line after it with no
\* other section header between them.
ConfigHas(text, section, key, value) ==
    \E i, j \in 1..Len(TextLines(text)) :
        /\ i < j
        /\ TextLines(text)[i] = <<91>> \o section \o <<93>>
        /\ TextLines(text)[j] = key \o <<32, 61, 32>> \o value
        /\ \A k \in (i + 1)..(j - 1) :
               TextLines(text)[k] = <<>> \/ TextLines(text)[k][1] # 91

GitDirOf(path) == PathJoin(path, T_dotgit)
HasDir(fs, path, parts) ==
    /\ JoinAll(<<GitDirOf(path)>> \o parts) \in DOMAIN fs
    /\ fs[JoinAll(<<GitDirOf(path)>> \o parts)].dir
FileIs(fs, p, data) == p \in DOMAIN fs /\ ~fs[p].dir /\ fs[p].data = data

\* create is to refuse the place: path is there and is no directory, or
\* its .git holds something.
Refused(fs, path) ==
    \/ path \in DOMAIN fs /\ ~fs[path].dir
    \/ \E k \in DOMAIN fs : DirName(k) = GitDirOf(path)

\* C21: after create(path) succeeds the gitdir has the directories
\* branches, objects, refs/tags and refs/heads, HEAD holds
\* `ref: refs/heads/master` and LF, and config has in section core
\* repositoryformatversion = 0, filemode = false and bare = false; create
\* fails and changes nothing when path is no directory or its .git is not
\* empty.
C21_Create ==
    [][(cm'.pc = "init") =>
          /\ cm'.err = "" =>
                /\ HasDir(wt', cm'.path, <<T_branches>>)
                /\ HasDir(wt', cm'.path, <<T_objects>>)
                /\ HasDir(wt', cm'.path, <<T_refs_dir, T_tags_dir>>)
                /\ HasDir(wt', cm'.path, <<T_refs_dir, T_heads_dir>>)
                /\ FileIs(wt', PathJoin(GitDirOf(cm'.path), T_HEAD), T_HEAD_INIT)
                /\ PathJoin(GitDirOf(cm'.path), T_config) \in DOMAIN wt'
                /\ ConfigHas(wt'[PathJoin(GitDirOf(cm'.path), T_config)].data,
                             T_core, T_repositoryformatversion, T_0)
                /\ ConfigHas(wt'[PathJoin(GitDirOf(cm'.path), T_config)].data,
                             T_core, T_filemode, T_false)
                /\ ConfigHas(wt'[PathJoin(GitDirOf(cm'.path), T_config)].data,
                             T_core, T_bare, T_false)
          /\ Refused(wt, cm'.path) => (cm'.err # "" /\ wt' = wt)
      ]_vars

\* The files under refs/tags.
TagRefs(rs) == {k \in DOMAIN rs : StartsWith(k, T_refs \o T_tags)}
\* The ref file holds the OID of an object of the store, and LF.
NamesObject(rs, k, store, oid) == oid \in DOMAIN store /\ rs[k] = oid \o <<LF>>
Readable(store, oid) ==
    object_read(store, oid).err = "" /\ ~object_read(store, oid).val.none

\* C22: making the annotated tag <name> of an object leaves refs/tags/<name>
\* holding the OID of a stored object of kind tag whose `object` header is
\* the OID of the tagged object; after a tag is made, annotated or not,
\* every file under refs/tags holds the OID of an object that object_read
\* reads from the store.
C22_TagObject ==
    [][(last'.op \in {"tag", "tag_create"}) =>
          /\ last'.follow =>
                /\ last'.res.err = ""
                /\ T_refs \o T_tags \o last'.name \in DOMAIN refs'
                /\ \E oid \in DOMAIN objects' :
                      /\ NamesObject(refs', T_refs \o T_tags \o last'.name,
                                     objects', oid)
                      /\ StoredFmt(objects', oid) = B_tag
                      /\ last'.fmt \in DOMAIN objects =>
                            StartsWith(Payload(objects', oid),
                                B_object \o <<SP>> \o last'.fmt \o <<LF>>)
          /\ last'.res.err = "" =>
                \A k \in TagRefs(refs') :
                    \E oid \in DOMAIN objects' :
                        /\ NamesObject(refs', k, objects', oid)
                        /\ Readable(objects', oid)
      ]_vars

\* The index file holds entries, none of them for p.
HoldsOthers(file, p) ==
    /\ OnDisk(file) # <<>>
    /\ \A i \in 1..Len(OnDisk(file)) : OnDisk(file)[i].name # p

\* C23: add of a file to an index that holds entries of other files keeps
\* each of those entries as it was and adds exactly one entry, for the new
\* file; files added one at a time each have their entry.
C23_AddKeeps ==
    [][\A p \in {T_a, T_b} :
          (HoldsOthers(index, p) /\ CmdAdd(<<p>>))
          => ( /\ cm'.err = ""
               /\ Len(OnDisk(index')) = Len(OnDisk(index)) + 1
               /\ \A i \in 1..Len(OnDisk(index)) :
                     \E j \in 1..Len(OnDisk(index')) :
                         OnDisk(index')[j] = OnDisk(index)[i]
               /\ \E j \in 1..Len(OnDisk(index')) :
                     OnDisk(index')[j].name = p )]_vars

\* C24: an add that fails leaves the index file as it was, byte for byte:
\* no entry is dropped and the file is not cut short.
C24_AddFails ==
    [][\A paths \in PathLists :
          (CmdAdd(paths) /\ cm'.err # "") => index' = index]_vars

\* The names of a list of entries.
Names(entries) == {entries[i].name : i \in 1..Len(entries)}
\* The entries of a list whose names are not in a set, in their order.
RECURSIVE Without(_, _)
Without(entries, names) ==
    IF entries = <<>> THEN <<>>
    ELSE IF Head(entries).name \in names THEN Without(Tail(entries), names)
    ELSE <<Head(entries)>> \o Without(Tail(entries), names)

\* C25: rm fails when a path lies outside of the worktree or is not in the
\* index, and then deletes no file and leaves the index file as it was;
\* otherwise it succeeds, removes the entries of the paths given and no
\* other, deletes those files and no other, and leaves the other entries
\* as they were and in their order.
C25_Rm ==
    [][\A paths \in PathLists :
          CmdRm(paths) =>
             IF \E i \in 1..Len(paths) :
                    Outside(paths[i]) \/ paths[i] \notin Names(OnDisk(index))
             THEN cm'.err # "" /\ wt' = wt /\ index' = index
             ELSE /\ cm'.err = ""
                  /\ OnDisk(index') = Without(OnDisk(index), Range(paths))
                  /\ DOMAIN wt' = DOMAIN wt \ Range(paths)
                  /\ \A k \in DOMAIN wt' : wt'[k] = wt[k] ]_vars

\* The file of the store holds the whole zlib stream of an object whose
\* hash is the name of the file.
Complete(store, sha) ==
    /\ zlib_decompress(store[sha].data).err = ""
    /\ sha1_hexdigest(zlib_decompress(store[sha].data).val) = sha

\* C26: whenever no write is under way, a write that was stopped or that
\* failed part-way included, every file of the store holds the complete
\* stream of its object; so after an object_write of an object has
\* returned, the file of that object is complete.
C26_Atomic ==
    cm.pc \in {"idle", "returned"} =>
        \A sha \in DOMAIN objects : Complete(objects, sha)

(***************************************************************************)
(* C27: kvlm_parse terminates on every byte string: the loop over the      *)
(* continuation lines ends and no recursive call starts at an offset it    *)
(* started at before, so the parse ends with a result or an exception      *)
(* other than the exhaustion of the stack.                                 *)
(***************************************************************************)
C27_Terminates ==
    kv.pc \in {"parsed", "roundtrip"} => kv.out.err \notin {"Hang", "RecursionError"}

(***************************************************************************)
(* C28: tree_from_index builds one tree for every directory that is an     *)
(* ancestor of an index entry and one for the root; the tree of a          *)
(* directory is written after the trees of its subdirectories and holds    *)
(* one leaf for each file directly in it and one 040000 leaf for each      *)
(* immediate subdirectory with the OID that subdirectory's tree got; the   *)
(* root tree is written last and its OID is the value returned.            *)
(***************************************************************************)
\* The directories above a name: what stands before each of its `/`.
DirsOfName(name) ==
    {SubSeq(name, 1, k - 1) : k \in {n \in 1..Len(name) : name[n] = 47}}

DirsOf(entries) == UNION {DirsOfName(entries[i].name) : i \in 1..Len(entries)}

\* The directory a path is directly in, the root being <<>>.
UpperDir(p) == SubSeq(p, 1, LastSlash(p) - 1)

\* The turn of the loop that wrote the tree of directory p, 0 if none did.
TurnOf(written, p) ==
    IF \E i \in 1..Len(written) : written[i].path = p
    THEN CHOOSE i \in 1..Len(written) : written[i].path = p
    ELSE 0

\* The leaves the tree of directory p is to hold.
FileLeaves(entries, p) ==
    {GitTreeLeaf(MODE_FILE, SubSeq(entries[i].name, LastSlash(entries[i].name) + 1,
                                   Len(entries[i].name)), entries[i].sha) :
        i \in {j \in 1..Len(entries) : UpperDir(entries[j].name) = p}}

DirLeaves(entries, written, p) ==
    {GitTreeLeaf(MODE_DIR, SubSeq(q, LastSlash(q) + 1, Len(q)),
                 written[TurnOf(written, q)].sha) :
        q \in {d \in DirsOf(entries) : UpperDir(d) = p}}

TreeInOrder(entries, written, j) ==
    /\ written[j].path \in DirsOf(entries) \cup {<<>>}
    /\ \A i \in 1..(j - 1) : written[i].path # written[j].path
    /\ \A q \in DirsOf(entries) :
          UpperDir(q) = written[j].path =>
              TurnOf(written, q) \in 1..(j - 1)
    /\ Range(written[j].items) =
          FileLeaves(entries, written[j].path)
              \cup DirLeaves(entries, written, written[j].path)
    /\ Len(written[j].items) =
          Cardinality(FileLeaves(entries, written[j].path))
              + Cardinality(DirLeaves(entries, written, written[j].path))
    /\ written[j].sha \in DOMAIN objects

C28_TreesInOrder ==
    cm.pc \in {"trees", "returned"} =>
        /\ \A j \in 1..Len(cm.written) : TreeInOrder(cm.entries, cm.written, j)
        /\ cm.pc = "returned" =>
              /\ Len(cm.written) = Cardinality(DirsOf(cm.entries)) + 1
              /\ cm.written[Len(cm.written)].path = <<>>
              /\ cm.sha = Str(cm.written[Len(cm.written)].sha)
              /\ cm.sha = tree_from_index(cm.entries, cm.store0).val
              /\ objects = tree_from_index(cm.entries, cm.store0).store

\* A run over an index with a file in the root, one in a directory and one
\* two directories down has returned.
C28_Witness ==
    /\ cm.pc = "returned"
    /\ Len(cm.written) = 3
    /\ \E i, j, k \in 1..Len(cm.entries) :
          /\ cm.entries[i].name = T_a
          /\ cm.entries[j].name = T_dc
          /\ cm.entries[k].name = T_def

(***************************************************************************)
(* C29: for every local UTC offset from -12:00 to +14:00 in whole minutes  *)
(* the timezone field of the author and committer lines of the commit that *)
(* commit_create writes is a sign and four decimal digits HHMM, HH the     *)
(* hours and MM the minutes of the absolute offset, the sign `-` exactly   *)
(* for the negative offsets.                                               *)
(***************************************************************************)
Abs(n) == IF n < 0 THEN 0 - n ELSE n

TwoDigits(n) == <<48 + (n \div 10), 48 + (n % 10)>>

SignHHMM(offset) ==
    (IF offset < 0 THEN <<45>> ELSE <<43>>)
        \o TwoDigits(Abs(offset) \div 3600)
        \o TwoDigits((Abs(offset) % 3600) \div 60)

\* The payload of the commit has the line `key author seconds tz`.
HasLine(payload, key, tz) ==
    \E i \in 1..Len(TextLines(payload)) :
        TextLines(payload)[i] =
            key \o <<SP>> \o T_user \o <<SP>> \o T_now \o <<SP>> \o tz

C29_Timezone ==
    cm.pc = "committed" =>
        /\ HasLine(Payload(objects, cm.sha), B_author, SignHHMM(cm.offset))
        /\ HasLine(Payload(objects, cm.sha), B_committer, SignHHMM(cm.offset))

============================================================================
